---- MODULE Spec2Model ----
(***************************************************************************)
(* The analysis request gateway of the AegisOps API server:                *)
(*   - the analyze cache (server/lib/analyzeCache: TTL + capacity, LRU),   *)
(*   - the retry/timeout engine of the Gemini and Ollama adapters,         *)
(*   - the POST /api/analyze handler with its in-flight map.               *)
(* Time is Date.now() in milliseconds.  A JS Map is a sequence of entries  *)
(* in insertion order.                                                     *)
(***************************************************************************)
EXTENDS Integers, Sequences, FiniteSets, TLC

VARIABLES
  cfg,        \* loadConfig(): the configuration record, fixed at start
  now,        \* Date.now(), ms
  store,      \* createAnalyzeCache: the Map store, in insertion order
  lastOp,     \* the last operation performed, its arguments and its result
  hist,       \* history: when each stored key was last set, and the order of use
  rateBuckets,          \* Map key -> {count, resetAt}
  runtimeGeminiApiKey,  \* runtimeGeminiApiKey.value, "" when undefined
  analyzeInFlight,      \* Map cache key -> the promise of the pending work
  handlers,   \* the /api/analyze handlers suspended at an await
  jobs,       \* the adapter calls (promises of work), by the owner's slot
  reactions,  \* per promise, the handlers awaiting it, in the order of await
  microtasks, \* the continuations the event loop runs before the next task
  abandoned,  \* per cache key, the timed-out upstream calls still pending
  okAt        \* history: per cache key, when its work last succeeded, and
              \* whether its entry was evicted for capacity since

cacheVars == <<store, hist>>
gatewayVars ==
  <<rateBuckets, runtimeGeminiApiKey, analyzeInFlight, handlers, reactions, okAt>>
jobVars == <<jobs, microtasks, abandoned>>
vars == <<cfg, now, lastOp, cacheVars, gatewayVars, jobVars>>

\* ------------------------------------------------------------------ bounds
MaxTicks == 5            \* the clock advances at most this many half seconds
MsPerSec == 1000         \* analyzeCache.ts: ttlSec * 1000
HalfSecond == MsPerSec \div 2
MaxNow == MaxTicks * HalfSecond

Undefined == "undefined"

Min(a, b) == IF a <= b THEN a ELSE b
Max(a, b) == IF a >= b THEN a ELSE b

\* ------------------------------------------------------- analyze cache
CacheKeys == {"a", "b", "c"}
EmptyString == ""
CacheValues == {"V1", "V2"}
TtlMaxSec == 86400
MaxEntriesMax == 5000

\* clampInt(value, min, max) = Math.max(min, Math.min(max, Number(value || 0)))
clampInt(value, lo, hi) == Max(lo, Min(hi, value))

ttlSecOf(c) == clampInt(c.analyzeCacheTtlSec, 0, TtlMaxSec)
maxEntriesOf(c) == clampInt(c.analyzeCacheMaxEntries, 0, MaxEntriesMax)

isExpiredLate(entry, t) == entry.expiresAt < t
isExpired(entry, t) == entry.expiresAt <= t

enabledAlways(c) == TRUE
enabled(c) == ttlSecOf(c) > 0 /\ maxEntriesOf(c) > 0

\* Map primitives on the sequence of entries
MapKeys(s) == {s[i].key : i \in 1..Len(s)}
MapHas(s, key) == key \in MapKeys(s)
MapGet(s, key) == LET i == CHOOSE i \in 1..Len(s) : s[i].key = key IN s[i]
MapDelete(s, key) == SelectSeq(s, LAMBDA e : e.key # key)
\* Map.set keeps the position of a key that is present, appends a new one
MapSet(s, key, entry) ==
  IF MapHas(s, key)
    THEN [i \in 1..Len(s) |-> IF s[i].key = key THEN entry ELSE s[i]]
    ELSE Append(s, entry)

sweepAll(s, t) == << >>
sweep(s, t) == SelectSeq(s, LAMBDA e : ~isExpired(e, t))

size(s) == Len(s)

\* get(key): the store after the call
cacheGetStoreNoRefresh(c, s, key, t) ==
  IF ~enabled(c) THEN s
  ELSE IF ~MapHas(s, key) THEN s
  ELSE IF isExpired(MapGet(s, key), t) THEN MapDelete(s, key)
  ELSE s
cacheGetStore(c, s, key, t) ==
  IF ~enabled(c) THEN s
  ELSE IF ~MapHas(s, key) THEN s
  ELSE IF isExpired(MapGet(s, key), t) THEN MapDelete(s, key)
  ELSE MapSet(MapDelete(s, key), key, MapGet(s, key))

\* get(key): the value returned
cacheGetValueMiss(c, s, key, t) == Undefined
cacheGetValue(c, s, key, t) ==
  IF ~enabled(c) THEN Undefined
  ELSE IF ~MapHas(s, key) THEN Undefined
  ELSE IF isExpired(MapGet(s, key), t) THEN Undefined
  ELSE MapGet(s, key).value

\* store.keys().next().value of a store that is not empty
newestKey(s) == s[Len(s)].key
oldestKey(s) == s[1].key

\* set(key, value): the store after the call
cacheSetStoreEvictFirst(c, s, key, value, t) ==
  IF ~enabled(c) THEN s
  ELSE
    LET swept == sweep(s, t)
        pruned ==
          IF size(swept) >= maxEntriesOf(c) /\ size(swept) > 0
            THEN MapDelete(swept, oldestKey(swept))
          ELSE swept
    IN MapSet(pruned, key,
              [key |-> key, value |-> value,
               expiresAt |-> t + ttlSecOf(c) * MsPerSec])
cacheSetStore(c, s, key, value, t) ==
  IF ~enabled(c) THEN s
  ELSE
    LET swept == sweep(s, t)
        pruned ==
          IF MapHas(swept, key) THEN MapDelete(swept, key)
          ELSE IF size(swept) >= maxEntriesOf(c)
            THEN (IF size(swept) > 0 /\ oldestKey(swept) # EmptyString
                    THEN MapDelete(swept, oldestKey(swept))
                    ELSE swept)
          ELSE swept
    IN MapSet(pruned, key,
              [key |-> key, value |-> value,
               expiresAt |-> t + ttlSecOf(c) * MsPerSec])

\* ------------------------------------------- retry / timeout engine
\* ------------------------------------------------ image validation
\* A data string is described by what the code reads from it: the mime type
\* of its data-URL prefix ("" when it has none), and of its payload the text
\* without whitespace, the length of that text, its padding characters and
\* whether it matches BASE64_PATTERN.
DataString(dataUrlMime, text, len, pad, base64) ==
  [dataUrlMime |-> dataUrlMime, text |-> text, len |-> len, pad |-> pad,
   base64 |-> base64]
BlankData == DataString("", "", 0, 0, FALSE)
HelloData == DataString("", "aGVsbG8=", 8, 1, TRUE)
WorldData == DataString("", "d29ybGQ=", 8, 1, TRUE)
PngUrlData == DataString("image/png", "aGVsbG8=", 8, 1, TRUE)
EmptyUrlData == DataString("image/png", "", 0, 0, FALSE)
NotBase64Data == DataString("", "%%%not-base64%%%", 16, 0, FALSE)
LargeData == DataString("", "QUFB...", 2048, 0, TRUE)

AllowedImageMimeTypes ==
  {"image/png", "image/jpeg", "image/jpg", "image/webp", "image/gif", "image/bmp"}

\* normalizeMimeType(stripped.mimeType || row.mimeType)
normalizeMimeType(input) == IF input = "" THEN "image/png" ELSE input

\* estimateBase64Bytes of a payload without whitespace
estimateBase64Bytes(data) ==
  IF data.len = 0 THEN 0 ELSE Max(0, ((data.len * 3) \div 4) - data.pad)

EUnsupportedMime(mimeType) == "Unsupported image mimeType: " \o mimeType
EInvalidBase64 == "Invalid image base64 payload."
EPayloadTooLarge(sizeBytes, maxImageBytes) ==
  "Image payload too large (" \o ToString(sizeBytes) \o " bytes > " \o
  ToString(maxImageBytes) \o " bytes)."

Returned(images) == [ok |-> TRUE, images |-> images, message |-> ""]
Thrown(message) == [ok |-> FALSE, images |-> << >>, message |-> message]

\* the test that ends the loop of normalizeAndValidateImages after a push
capReached(pushed, maxImages) == Len(pushed) >= maxImages

\* the loop of normalizeAndValidateImages from row i on, out collected so far
RECURSIVE normalizeFrom(_, _, _, _, _)
normalizeFrom(source, i, out, maxImages, maxImageBytes) ==
  IF i > Len(source) THEN Returned(out)
  ELSE
    LET row == source[i]
        mimeType == normalizeMimeType(IF row.data.dataUrlMime # ""
                                        THEN row.data.dataUrlMime ELSE row.mimeType)
        sizeBytes == estimateBase64Bytes(row.data)
        pushed == Append(out, [mimeType |-> mimeType, data |-> row.data.text])
    IN
      IF row.data.dataUrlMime = "" /\ row.data.len = 0
        THEN normalizeFrom(source, i + 1, out, maxImages, maxImageBytes)
      ELSE IF mimeType \notin AllowedImageMimeTypes
        THEN Thrown(EUnsupportedMime(mimeType))
      ELSE IF row.data.len = 0
        THEN normalizeFrom(source, i + 1, out, maxImages, maxImageBytes)
      ELSE IF ~row.data.base64 THEN Thrown(EInvalidBase64)
      ELSE IF sizeBytes > maxImageBytes
        THEN Thrown(EPayloadTooLarge(sizeBytes, maxImageBytes))
      ELSE IF capReached(pushed, maxImages) THEN Returned(pushed)
      ELSE normalizeFrom(source, i + 1, pushed, maxImages, maxImageBytes)

\* normalizeAndValidateImages(imagesRaw, {maxImages, maxImageBytes})
normalizeAndValidateImagesLenient(imagesRaw, options) == Returned(<< >>)
normalizeAndValidateImages(imagesRaw, options) ==
  normalizeFrom(imagesRaw, 1, << >>, Max(0, options.maxImages),
                Max(1, options.maxImageBytes))

\* the raw images and the lists of them that the specifications submit
MaxRawImages == 3
RawImages ==
  [mimeType : {"", "image/jpeg"},
   data : {BlankData, HelloData, WorldData, PngUrlData, EmptyUrlData}]
  \cup [mimeType : {"application/pdf"}, data : {HelloData, PngUrlData}]
  \cup [mimeType : {"image/png"}, data : {NotBase64Data, LargeData}]
RawImageLists == UNION {[1..n -> RawImages] : n \in 0..MaxRawImages}
ImageByteLimits == {0, 5, 1024}
\* the validation errors that these raw images can raise
ImageErrors ==
  [unsupported |-> {EUnsupportedMime(r.mimeType) : r \in RawImages},
   tooLarge |-> {EPayloadTooLarge(estimateBase64Bytes(r.data), Max(1, b)) :
                   r \in RawImages, b \in ImageByteLimits}]

\* Error messages are strings; Includes(msg) is the set of the patterns (of
\* isRetriableGeminiError, isRetriableOllamaError and classifyErrorStatus)
\* that occur in msg.toLowerCase().
EUnavailable == "503 Service Unavailable"
ETooMany == "got status: 429 Too Many Requests"
EBadKey == "API key not valid. Please pass a valid API key."
ESafety == "Response was blocked due to SAFETY"
EOllama503 == "Ollama request failed (503 Service Unavailable)"
EOllama401 == "Ollama request failed (401 Unauthorized)"
EOllamaNetwork == "Network request failed while calling Ollama at url. Is Ollama running?"
EOllamaEmpty == "Empty response from Ollama."
EGeminiEmpty == "Empty response from model."
EJsonParse == "Unexpected token in JSON"
ETimeoutGeminiAnalyze == "Gemini analyze request timed out after 45s."
ETimeoutGeminiFollowUp == "Gemini follow-up request timed out after 45s."
ETimeoutGeminiTts == "Gemini TTS request timed out after 45s."
ETimeoutOllama == "Ollama request timed out after 45s."

Includes(msg) ==
  CASE msg = EUnavailable -> {"503", "unavailable"}
    [] msg = ETooMany -> {" 429", "429 ", "429", "too many requests", "too many"}
    [] msg = EOllama503 -> {"503", "unavailable", "failed ("}
    [] msg = EOllama401 -> {"failed ("}
    [] msg = EOllamaNetwork -> {"network", "network request failed"}
    [] msg \in {ETimeoutGeminiAnalyze, ETimeoutGeminiFollowUp,
                ETimeoutGeminiTts, ETimeoutOllama} -> {"timed out"}
    [] msg \in ImageErrors.unsupported -> {"unsupported "}
    [] msg = EInvalidBase64 -> {"invalid "}
    [] msg \in ImageErrors.tooLarge -> {"payload too large"}
    [] OTHER -> {}

GeminiPatterns ==
  {" 429", "429 ", "(429)", "rate limit", "resource exhausted", "internal error",
   "unavailable", "temporarily unavailable", "timeout", "timed out",
   "deadline exceeded", "network", "econnreset", "socket hang up",
   "503", "502", "504"}
OllamaPatterns ==
  {"429", "rate limit", "too many requests", "internal server error",
   "unavailable", "temporarily unavailable", "timed out", "timeout", "network",
   "econnreset", "socket hang up", "502", "503", "504"}

isRetriableGeminiError(msg) == msg # "" /\ Includes(msg) \cap GeminiPatterns # {}
isRetriableOllamaError(msg) == msg # "" /\ Includes(msg) \cap OllamaPatterns # {}

GeminiKinds == {"geminiAnalyze", "geminiFollowUp", "geminiTts"}
OllamaKinds == {"ollamaAnalyze", "ollamaFollowUp"}
JobKinds == GeminiKinds \cup OllamaKinds

isRetriable(kind, msg) ==
  IF kind \in GeminiKinds THEN isRetriableGeminiError(msg)
  ELSE isRetriableOllamaError(msg)

\* the errors an upstream call can fail with, as the adapter sees them
UpstreamErrors(kind) ==
  IF kind \in GeminiKinds THEN {EUnavailable, ETooMany, EBadKey, ESafety}
  ELSE {EOllama503, EOllama401}

\* withTimeout's error for the label of the adapter; the Ollama op's AbortError
TimeoutMessage(kind) ==
  CASE kind = "geminiAnalyze" -> ETimeoutGeminiAnalyze
    [] kind = "geminiFollowUp" -> ETimeoutGeminiFollowUp
    [] kind = "geminiTts" -> ETimeoutGeminiTts
    [] OTHER -> ETimeoutOllama

\* what a call that settles with a response can carry
EmptyText == ""
BadJson == "not json"
Responses == {"R1", "R2", EmptyText, BadJson}

AttemptsMin == 1
AttemptsMax == 6
clampNumber(value, lo, hi) == Min(hi, Max(lo, value))
\* clampNumber(Number(input.maxAttempts || 1), 1, 6)
maxAttemptsOf(c) ==
  clampNumber(IF c.geminiRetryMaxAttempts = 0 THEN 1 ELSE c.geminiRetryMaxAttempts,
              AttemptsMin, AttemptsMax)

\* the strategies array of geminiAnalyzeIncident; the other adapters call
\* withRetry once
StrategiesLength == 2
strategiesOf(kind) == IF kind = "geminiAnalyze" THEN StrategiesLength ELSE 1

\* A job is one call of an adapter function (geminiAnalyzeIncident, ...).
\*   strategy, attempt: the loop counters; phase: what the job waits for;
\*   calls, run, lastRun, lastErr, fatal, delivered: history of the upstream
\*   calls issued, of the withRetry runs and of the responses sent for the job.
NoRun ==
  [calls |-> 0, allRetriable |-> TRUE, first |-> "", outcome |-> "running",
   message |-> ""]
NoJob == [kind |-> "none", phase |-> "none"]
PendingResult == [ok |-> FALSE, value |-> "", message |-> ""]
Ok(value) == [ok |-> TRUE, value |-> value, message |-> ""]
Failed(msg) == [ok |-> FALSE, value |-> "", message |-> msg]

\* history: one more upstream call is issued, in the current withRetry run
countCall(job) ==
  IF job.track
    THEN [job EXCEPT !.calls = @ + 1, !.run = [@ EXCEPT !.calls = @ + 1]]
    ELSE [job EXCEPT !.calls = @ + 1]

\* the adapter function is called: withRetry starts and calls op() at once.
\* track: whether the history fields of the job are kept.
newJob(kind, key, track) ==
  countCall(
    [kind |-> kind, key |-> key, track |-> track, model |-> "",
     strategy |-> 0, attempt |-> 1, phase |-> "call",
     calls |-> 0, run |-> NoRun, lastRun |-> NoRun,
     lastErr |-> "", fatal |-> [seen |-> FALSE, message |-> "", calls |-> 0],
     result |-> PendingResult, delivered |-> {}])

\* withRetry's catch: another attempt after this failure?
retriesAgainOffByOne(job, c, msg) ==
  ~(job.attempt > maxAttemptsOf(c) \/ ~isRetriable(job.kind, msg))
retriesAgain(job, c, msg) ==
  ~(job.attempt >= maxAttemptsOf(c) \/ ~isRetriable(job.kind, msg))

\* the error withRetry throws when it gives up: the caught error itself
thrownGeneric(job, msg) == "request failed."
thrown(job, msg) == msg

\* the adapter ends
settle(job, result) == [job EXCEPT !.phase = "done", !.result = result]

\* an error reaches the adapter function, from withRetry or from its own
\* handling of the response: the strategies loop of geminiAnalyzeIncident
\* swallows it unless the strategy is the last one; the other adapters let it
\* propagate
adapterCatchOnceMore(job, msg) ==
  IF job.kind = "geminiAnalyze" /\ job.strategy # strategiesOf(job.kind)
    THEN countCall([job EXCEPT !.strategy = @ + 1, !.attempt = 1,
                               !.phase = "call", !.run = NoRun])
    ELSE settle(job, Failed(msg))
adapterCatch(job, msg) ==
  IF job.kind = "geminiAnalyze" /\ job.strategy # strategiesOf(job.kind) - 1
    THEN countCall([job EXCEPT !.strategy = @ + 1, !.attempt = 1,
                               !.phase = "call", !.run = NoRun])
    ELSE settle(job, Failed(msg))

\* history: the withRetry run of the job ends
endRun(job, outcome, msg) ==
  IF job.track
    THEN [job EXCEPT !.lastRun = [job.run EXCEPT !.outcome = outcome,
                                                 !.message = msg]]
    ELSE job

\* history: an attempt of the job failed with msg
FatalMessages == {EBadKey, ESafety, EOllama401}
noteFailure(job, msg) ==
  IF job.track
    THEN [job EXCEPT
            !.lastErr = msg,
            !.run = [@ EXCEPT !.allRetriable = @ /\ isRetriable(job.kind, msg),
                              !.first = IF @ = "" THEN msg ELSE @],
            !.fatal = IF msg \in FatalMessages /\ ~@.seen
                        THEN [seen |-> TRUE, message |-> msg, calls |-> job.calls]
                        ELSE @]
    ELSE job

\* an attempt fails with msg (the op rejected, or the timeout won the race)
attemptFailed(job, c, msg) ==
  LET j == noteFailure(job, msg) IN
    IF retriesAgain(job, c, msg)
      THEN [j EXCEPT !.phase = "sleep"]
      ELSE adapterCatch(endRun(j, "threw", thrown(job, msg)), thrown(job, msg))

\* sleep(delay) is over: the next iteration of withRetry's loop calls op()
sleepOver(job) == countCall([job EXCEPT !.attempt = @ + 1, !.phase = "call"])

\* the upstream call settles with a response
callResolved(job, c, resp) ==
  IF job.kind \in OllamaKinds /\ resp = EmptyText
    THEN attemptFailed(job, c, EOllamaEmpty)
  ELSE
    LET j == endRun(job, "returned", "") IN
      CASE job.kind = "geminiAnalyze" ->
             IF resp = EmptyText THEN adapterCatch(j, EGeminiEmpty)
             ELSE IF resp = BadJson THEN adapterCatch(j, EJsonParse)
             ELSE settle(j, Ok(resp))
        [] job.kind = "ollamaAnalyze" ->
             IF resp = BadJson THEN settle(j, Failed(EJsonParse))
             ELSE settle(j, Ok(resp))
        [] job.kind \in {"geminiFollowUp", "ollamaFollowUp"} ->
             settle(j, Ok(IF resp = EmptyText THEN "No answer generated." ELSE resp))
        [] OTHER -> settle(j, Ok(resp))

\* withTimeout abandons the Gemini call, which stays pending; the Ollama op
\* aborts its fetch
leavesCallPending(kind) == kind \in GeminiKinds

\* ------------------------------------------------------ shared state
MaxHandlers == 2         \* handlers suspended at an await at the same time
Slots == 1..MaxHandlers
NoPromise == 0
FreeHandler == [pc |-> "free"]

EmptyMap == [k \in {} |-> 0]
NoIdentity == [provider |-> "", model |-> ""]
NeverOk ==
  [at |-> -1, evicted |-> FALSE, by |-> NoIdentity, switched |-> FALSE,
   failed |-> FALSE]

\* history: the work for key failed; the next request that looks key up
\* clears the mark
OkAtOnFailure(h, key) == [h EXCEPT ![key].failed = TRUE]
OkAtOnLookup(h, key) == [h EXCEPT ![key].failed = FALSE]

IdleGateway ==
  /\ rateBuckets = EmptyMap
  /\ runtimeGeminiApiKey = ""
  /\ analyzeInFlight = EmptyMap
  /\ handlers = [r \in Slots |-> FreeHandler]
  /\ reactions = [j \in Slots |-> << >>]
  /\ okAt = EmptyMap

\* ------------------------------------------------- cache specification
CacheTtlOptions == {0, 1, 2}
CacheMaxOptions == {0, 1, 2}

CacheCfgs ==
  [analyzeCacheTtlSec : CacheTtlOptions, analyzeCacheMaxEntries : CacheMaxOptions]

\* History of the cache's use, kept beside the store: for every key, the time
\* and value of its last set, and the keys in the order of their last use
\* (set, or get that returned a value).  Keys no longer stored are dropped.
\* lastOp after a step that no property reads
Quiet == [op |-> "quiet"]
NeverSet == [at |-> -1, value |-> Undefined]
HistInit(keys) == [recency |-> << >>, lastSet |-> [k \in keys |-> NeverSet]]
Touch(seq, key) == Append(SelectSeq(seq, LAMBDA k : k # key), key)
HistKeep(h, s) ==
  [recency |-> SelectSeq(h.recency, LAMBDA k : MapHas(s, k)),
   lastSet |-> [k \in DOMAIN h.lastSet |->
                  IF MapHas(s, k) THEN h.lastSet[k] ELSE NeverSet]]
HistOnGet(h, key, ret, s) ==
  HistKeep([h EXCEPT !.recency = IF ret # Undefined THEN Touch(@, key) ELSE @], s)
HistOnSet(h, key, value, t, s) ==
  HistKeep([recency |-> Touch(h.recency, key),
            lastSet |-> [h.lastSet EXCEPT ![key] = [at |-> t, value |-> value]]], s)

InitCache ==
  /\ cfg \in CacheCfgs
  /\ now = 0
  /\ store = << >>
  /\ lastOp = Quiet
  /\ hist = HistInit(CacheKeys)
  /\ IdleGateway
  /\ jobs = [j \in Slots |-> NoJob]
  /\ microtasks = << >>
  /\ abandoned = [k \in {} |-> 0]

Tick(limit) ==
  /\ now < limit
  /\ microtasks = << >>
  /\ now' = now + HalfSecond
  /\ lastOp' = Quiet
  /\ okAt' = [k \in DOMAIN okAt |->
                IF okAt[k].at + ttlSecOf(cfg) * MsPerSec <= now'
                  THEN [NeverOk EXCEPT !.failed = okAt[k].failed]
                ELSE okAt[k]]
  /\ UNCHANGED <<cfg, cacheVars, rateBuckets, runtimeGeminiApiKey, analyzeInFlight,
                 handlers, reactions, jobVars>>

CacheGet(key) ==
  /\ store' = cacheGetStore(cfg, store, key, now)
  /\ lastOp' = [op |-> "get", key |-> key, before |-> store,
                histBefore |-> hist,
                ret |-> cacheGetValue(cfg, store, key, now)]
  /\ hist' = HistOnGet(hist, key, cacheGetValue(cfg, store, key, now), store')
  /\ UNCHANGED <<cfg, now, gatewayVars, jobVars>>

CacheSet(key, value) ==
  /\ store' = cacheSetStore(cfg, store, key, value, now)
  /\ lastOp' = [op |-> "set", key |-> key, value |-> value, before |-> store,
                histBefore |-> hist]
  /\ hist' = HistOnSet(hist, key, value, now, store')
  /\ UNCHANGED <<cfg, now, gatewayVars, jobVars>>

CacheSweep ==
  /\ store' = sweep(store, now)
  /\ lastOp' = [op |-> "sweep", before |-> store]
  /\ hist' = HistKeep(hist, store')
  /\ UNCHANGED <<cfg, now, gatewayVars, jobVars>>

NextCache ==
  \/ Tick(MaxNow)
  \/ \E key \in CacheKeys : CacheGet(key)
  \/ \E key \in CacheKeys, value \in CacheValues : CacheSet(key, value)
  \/ CacheSweep

SpecCache == InitCache /\ [][NextCache]_vars

\* ---------------------------------------------------- claims on the cache
AllUnexpired(s, t) == \A i \in 1..Len(s) : s[i].expiresAt > t
NewEntry(key, value, t) ==
  [key |-> key, value |-> value, expiresAt |-> t + ttlSecOf(cfg) * MsPerSec]

\* The last operation was a set of a key that was not stored, into a store
\* that held maxEntries entries, none of them expired.
SetIntoFull ==
  /\ lastOp.op = "set"
  /\ enabled(cfg)
  /\ ~MapHas(lastOp.before, lastOp.key)
  /\ Len(lastOp.before) = maxEntriesOf(cfg)
  /\ AllUnexpired(lastOp.before, now)

\* C5: a set of a new key into a cache holding maxEntries unexpired entries
\* removes exactly the least recently used key (by the history of sets and
\* successful gets), keeps every other entry as it was, and stores the new key
\* with its value.
C5_EvictsLeastRecentlyUsed ==
  SetIntoFull =>
    LET lru == lastOp.histBefore.recency[1] IN
      /\ MapKeys(store) = (MapKeys(lastOp.before) \ {lru}) \cup {lastOp.key}
      /\ Len(store) = maxEntriesOf(cfg)
      /\ \A k \in MapKeys(lastOp.before) \ {lru} :
            MapGet(store, k) = MapGet(lastOp.before, k)
      /\ MapGet(store, lastOp.key) = NewEntry(lastOp.key, lastOp.value, now)

\* C5 witness: a full two-entry cache took a third key and evicted the least
\* recently used key, which was not the one set first: a get had refreshed
\* the other.
C5_Witness ==
  /\ SetIntoFull
  /\ maxEntriesOf(cfg) = 2
  /\ LET h == lastOp.histBefore IN
       /\ h.lastSet[h.recency[1]].at > h.lastSet[h.recency[2]].at
       /\ ~MapHas(store, h.recency[1])
       /\ MapHas(store, h.recency[2])

\* The last operation was a get of a key that was stored.
GetOfStored ==
  /\ lastOp.op = "get"
  /\ enabled(cfg)
  /\ MapHas(lastOp.before, lastOp.key)

\* C6: a stored entry last set at time t is returned by get at every time
\* before t + ttlSec; from t + ttlSec on get returns absent and removes the
\* entry, so that size no longer counts it.
C6_TtlExpiry ==
  GetOfStored =>
    LET set == lastOp.histBefore.lastSet[lastOp.key]
        deadline == set.at + ttlSecOf(cfg) * MsPerSec IN
      /\ set.at >= 0
      /\ now < deadline => /\ lastOp.ret = set.value
                           /\ MapHas(store, lastOp.key)
      /\ now >= deadline => /\ lastOp.ret = Undefined
                            /\ ~MapHas(store, lastOp.key)
                            /\ size(store) = size(lastOp.before) - 1

\* C6 witness: a get exactly at the deadline t + ttlSec found the entry
\* expired and removed it.
C6_Witness ==
  /\ GetOfStored
  /\ now = lastOp.histBefore.lastSet[lastOp.key].at + ttlSecOf(cfg) * MsPerSec
  /\ lastOp.ret = Undefined
  /\ size(store) < size(lastOp.before)

\* The last operation was a get that returned a value, and the cache is full.
GetHitInFull ==
  /\ lastOp.op = "get"
  /\ lastOp.ret # Undefined
  /\ size(store) = maxEntriesOf(cfg)

LaterTimes == {now + i * HalfSecond : i \in 0..MaxTicks}

\* the keys a set of a new key at time t would remove although unexpired
EvictedBySet(newKey, t) ==
  {k \in MapKeys(sweep(store, t)) :
     ~MapHas(cacheSetStore(cfg, store, newKey, "V1", t), k)}

\* C7 as claimed: after get(k) hit in a full cache, the next set of a new key
\* never evicts k.
C7_Original ==
  GetHitInFull =>
    \A newKey \in CacheKeys \ MapKeys(store), t \in LaterTimes :
      lastOp.key \notin EvictedBySet(newKey, t)

\* C7 amended: after get(k) hit, k is the most recently used key; in a full
\* cache that holds at least one other entry, the next set of a new key evicts
\* the least recently used of the other entries and never k.
C7_GetRefreshesRecency ==
  GetHitInFull =>
    /\ lastOp.ret = MapGet(lastOp.before, lastOp.key).value
    /\ hist.recency[Len(hist.recency)] = lastOp.key
    /\ size(store) >= 2 =>
         \A newKey \in CacheKeys \ MapKeys(store), t \in LaterTimes :
           /\ lastOp.key \notin EvictedBySet(newKey, t)
           /\ AllUnexpired(store, t) =>
                EvictedBySet(newKey, t) =
                  {SelectSeq(hist.recency, LAMBDA k : k # lastOp.key)[1]}

\* C7 witness: get hit the oldest-inserted key of a full two-entry cache.
C7_Witness ==
  /\ GetHitInFull
  /\ size(store) = 2
  /\ lastOp.before[1].key = lastOp.key

\* the position of key in the iteration order of s
PositionOf(s, key) == CHOOSE i \in 1..Len(s) : s[i].key = key

\* C23: a sweep removes every entry with expiresAt <= now and leaves every
\* other entry as it was: its value, its expiresAt and its place in the order
\* of the entries.
C23_SweepRemovesExpired ==
  lastOp.op = "sweep" =>
    LET before == lastOp.before
        live == {i \in 1..Len(before) : before[i].expiresAt > now}
    IN /\ Len(store) = Cardinality(live)
       /\ \A i \in 1..Len(store) :
            /\ store[i].expiresAt > now
            /\ \E j \in live : before[j] = store[i]
       /\ \A i, j \in 1..Len(store) :
            i < j => PositionOf(before, store[i].key) < PositionOf(before, store[j].key)

\* C23 witness: a sweep of two entries removed the older, expired one and
\* kept the newer one.
C23_Witness ==
  /\ lastOp.op = "sweep"
  /\ Len(lastOp.before) = 2
  /\ lastOp.before[1].expiresAt <= now
  /\ store = <<lastOp.before[2]>>


\* classifyErrorStatus(e) of an error that carries no status of its own
classifyErrorStatus(msg) ==
  LET has == Includes(msg) IN
    IF msg = "" THEN 500
    ELSE IF "payload too large" \in has THEN 413
    ELSE IF {"missing ", "invalid ", "unsupported "} \cap has # {} THEN 400
    ELSE IF "timed out" \in has THEN 504
    ELSE IF {"too many", "rate limit", "429"} \cap has # {} THEN 429
    ELSE IF "misconfigured" \in has THEN 500
    ELSE IF {"network request failed", "failed ("} \cap has # {} THEN 502
    ELSE 500

\* res.json(report) and sendError(req, res, classifyErrorStatus(e), message)
jsonResponse(value) == [status |-> 200, body |-> value]
errorResponse(msg) ==
  [status |-> classifyErrorStatus(msg), body |-> IF msg = "" THEN "Error" ELSE msg]

\* what the handler that started the work answers when the work has settled
ownerResponse(result) ==
  IF result.ok THEN jsonResponse(result.value) ELSE errorResponse(result.message)
\* what a handler that awaited the in-flight promise answers
waiterResponseGeneric(result) ==
  IF result.ok THEN jsonResponse(result.value) ELSE errorResponse("")
waiterResponse(result) ==
  IF result.ok THEN jsonResponse(result.value) ELSE errorResponse(result.message)

\* ------------------------------------------------ upstream events
MaxAbandoned == 1        \* timed-out Gemini calls still pending, per key

\* the promise of job j settles when the adapter function ends: the awaiting
\* handlers are resumed, in the order in which they awaited
ResumeNobody(j, job) == microtasks
Resume(j, job) == IF job.phase = "done" THEN reactions[j] ELSE microtasks

\* the pending upstream call of job j settles with a response
CallResolves(j, resp) ==
  /\ microtasks = << >>
  /\ jobs[j].phase = "call"
  /\ LET job == callResolved(jobs[j], cfg, resp) IN
       /\ jobs' = [jobs EXCEPT ![j] = job]
       /\ microtasks' = Resume(j, job)
  /\ lastOp' = Quiet
  /\ UNCHANGED <<cfg, now, cacheVars, gatewayVars, abandoned>>

\* the pending upstream call of job j fails
CallRejects(j, msg) ==
  /\ microtasks = << >>
  /\ jobs[j].phase = "call"
  /\ msg \in UpstreamErrors(jobs[j].kind)
  /\ LET job == attemptFailed(jobs[j], cfg, msg) IN
       /\ jobs' = [jobs EXCEPT ![j] = job]
       /\ microtasks' = Resume(j, job)
  /\ lastOp' = Quiet
  /\ UNCHANGED <<cfg, now, cacheVars, gatewayVars, abandoned>>

\* the timeout of the attempt fires before the upstream call settles
CallTimesOut(j) ==
  /\ microtasks = << >>
  /\ jobs[j].phase = "call"
  /\ leavesCallPending(jobs[j].kind) => abandoned[jobs[j].key] < MaxAbandoned
  /\ LET job == attemptFailed(jobs[j], cfg, TimeoutMessage(jobs[j].kind)) IN
       /\ jobs' = [jobs EXCEPT ![j] = job]
       /\ microtasks' = Resume(j, job)
  /\ abandoned' = IF leavesCallPending(jobs[j].kind)
                    THEN [abandoned EXCEPT ![jobs[j].key] = @ + 1]
                    ELSE abandoned
  /\ lastOp' = Quiet
  /\ UNCHANGED <<cfg, now, cacheVars, gatewayVars>>

\* the backoff sleep of job j ends
SleepEnds(j) ==
  /\ microtasks = << >>
  /\ jobs[j].phase = "sleep"
  /\ jobs' = [jobs EXCEPT ![j] = sleepOver(jobs[j])]
  /\ lastOp' = Quiet
  /\ UNCHANGED <<cfg, now, cacheVars, gatewayVars, microtasks, abandoned>>

\* an upstream call abandoned by withTimeout settles: nobody listens
AbandonedSettles(key) ==
  /\ microtasks = << >>
  /\ abandoned[key] > 0
  /\ abandoned' = [abandoned EXCEPT ![key] = @ - 1]
  /\ lastOp' = Quiet
  /\ UNCHANGED <<cfg, now, cacheVars, gatewayVars, jobs, microtasks>>

\* ------------------------------------------- adapter specification
\* One call of an adapter function, for every adapter and every configured
\* retry count (0 stands for an unset value, 7 is clamped to 6).
RetryAttemptOptions == 0..(AttemptsMax + 1)
SoloKey == <<"solo">>

InitRetry ==
  /\ cfg \in [geminiRetryMaxAttempts : RetryAttemptOptions]
  /\ now = 0
  /\ store = << >>
  /\ hist = HistInit({})
  /\ lastOp = Quiet
  /\ IdleGateway
  /\ \E kind \in JobKinds :
       jobs = [j \in Slots |-> IF j = 1 THEN newJob(kind, SoloKey, TRUE) ELSE NoJob]
  /\ microtasks = << >>
  /\ abandoned = [k \in {SoloKey} |-> 0]

\* the route handler that called the adapter answers: res.json(result), or
\* its catch sends the error
RouteResponds ==
  /\ jobs[1].phase = "done"
  /\ jobs[1].delivered = {}
  /\ jobs' = [jobs EXCEPT ![1].delivered = {ownerResponse(jobs[1].result)}]
  /\ lastOp' = [op |-> "respond", role |-> "awaitWork", key |-> jobs[1].key,
                response |-> ownerResponse(jobs[1].result),
                result |-> jobs[1].result,
                delivered |-> {ownerResponse(jobs[1].result)},
                activeBefore |-> {1}]
  /\ UNCHANGED <<cfg, now, cacheVars, gatewayVars, microtasks, abandoned>>

NextRetry ==
  \/ RouteResponds
  \/ \E resp \in Responses : CallResolves(1, resp)
  \/ \E msg \in UpstreamErrors(jobs[1].kind) : CallRejects(1, msg)
  \/ CallTimesOut(1)
  \/ SleepEnds(1)
  \/ AbandonedSettles(SoloKey)

SpecRetry == InitRetry /\ [][NextRetry]_vars

\* ------------------------------------------------ claims on the adapters
\* C8: a withRetry run never calls op more than maxAttempts times, and a run
\* whose every attempt failed with a retriable error ends by failing after
\* exactly maxAttempts calls of op.
C8_BoundedRetry ==
  \A j \in Slots : jobs[j].phase # "none" =>
    /\ jobs[j].run.calls <= maxAttemptsOf(cfg)
    /\ jobs[j].lastRun.calls <= maxAttemptsOf(cfg)
    /\ jobs[j].run.allRetriable /\ jobs[j].phase = "call" =>
         jobs[j].run.calls = jobs[j].attempt
    /\ jobs[j].lastRun.outcome = "threw" /\ jobs[j].lastRun.allRetriable =>
         jobs[j].lastRun.calls = maxAttemptsOf(cfg)

\* C8 witness: with maxAttempts = 6 a run failed after six retriable failures.
C8_Witness ==
  /\ maxAttemptsOf(cfg) = AttemptsMax
  /\ cfg.geminiRetryMaxAttempts = AttemptsMax
  /\ jobs[1].phase = "done"
  /\ jobs[1].lastRun.outcome = "threw"
  /\ jobs[1].lastRun.allRetriable
  /\ jobs[1].lastRun.calls = AttemptsMax

\* C9: once an upstream call of a request has failed with a fatal error (bad
\* credentials, content-safety rejection), no further upstream call is made
\* for the request, and the request fails with that error.
C9_FatalNeverRetried ==
  \A j \in Slots : (jobs[j].phase # "none" /\ jobs[j].fatal.seen) =>
    /\ jobs[j].calls = jobs[j].fatal.calls
    /\ jobs[j].phase = "done"
    /\ jobs[j].result = Failed(jobs[j].fatal.message)

\* The withRetry run that ended the job used up maxAttempts, every attempt
\* failing with a retriable error.
Exhausted(job) ==
  /\ job.phase = "done"
  /\ ~job.result.ok
  /\ job.lastRun.outcome = "threw"
  /\ job.lastRun.allRetriable
  /\ job.lastRun.calls = maxAttemptsOf(cfg)

\* C10: when the attempts are exhausted by retriable errors, the adapter fails
\* with the message of the last attempt's error, and the response of the route
\* carries that message and the status classified from it.
C10_LastErrorVerbatim ==
  /\ \A j \in Slots : (jobs[j].phase # "none" /\ Exhausted(jobs[j])) =>
        /\ jobs[j].result = Failed(jobs[j].lastErr)
        /\ isRetriable(jobs[j].kind, jobs[j].lastErr)
  /\ (lastOp.op = "respond" /\ Exhausted(jobs[1])) =>
        lastOp.response = [status |-> classifyErrorStatus(jobs[1].lastErr),
                           body |-> jobs[1].lastErr]

\* C10 witness: after at least two attempts whose first error differs from
\* the last one, the route answered with the last one.
C10_Witness ==
  /\ lastOp.op = "respond"
  /\ Exhausted(jobs[1])
  /\ jobs[1].lastRun.calls >= 2
  /\ jobs[1].lastRun.first # jobs[1].lastErr
  /\ lastOp.response.body = jobs[1].lastErr

\* ------------------------------------------------------------ gateway
\* getEffectiveGeminiApiKey(): "" stands for undefined
getEffectiveGeminiApiKey(c, runtimeKey) ==
  IF runtimeKey # "" THEN runtimeKey ELSE c.geminiApiKey

getActiveProviderIgnoringKey(c, runtimeKey) ==
  IF c.llmProvider = "demo" THEN "demo"
  ELSE IF c.llmProvider = "ollama" THEN "ollama"
  ELSE "gemini"
getActiveProvider(c, runtimeKey) ==
  IF c.llmProvider = "demo" THEN "demo"
  ELSE IF c.llmProvider = "ollama" THEN "ollama"
  ELSE IF getEffectiveGeminiApiKey(c, runtimeKey) # "" THEN "gemini"
  ELSE "demo"

getAnalyzeModel(c, runtimeKey) ==
  IF getActiveProvider(c, runtimeKey) = "ollama"
    THEN c.ollamaModelAnalyze ELSE c.modelAnalyze

\* The hex digest of a text is written sha256(text): two digests are equal
\* exactly when the texts fed to the hash are equal.
sha256hex(text) == "sha256(" \o text \o ")"

hashImagePayload(image) ==
  sha256hex((IF image.mimeType = "" THEN "image/png" ELSE image.mimeType)
            \o "|" \o image.data)

\* the lines that the loop over input.images feeds to the digest, from image i on
RECURSIVE imageLines(_, _)
imageLines(images, i) ==
  IF i > Len(images) THEN ""
  ELSE hashImagePayload(images[i]) \o "\n" \o imageLines(images, i + 1)

\* successive digest.update calls hash the concatenation of their arguments
buildAnalyzeCacheKeyFirstImage(input) ==
  sha256hex("model:" \o input.model \o "\n"
            \o "grounding:" \o (IF input.enableGrounding THEN "1" ELSE "0") \o "\n"
            \o "logs:" \o input.logs \o "\n"
            \o "images:" \o ToString(Len(input.images)) \o "\n"
            \o (IF input.images = << >> THEN ""
                ELSE hashImagePayload(input.images[1])))
buildAnalyzeCacheKey(input) ==
  sha256hex("model:" \o input.model \o "\n"
            \o "grounding:" \o (IF input.enableGrounding THEN "1" ELSE "0") \o "\n"
            \o "logs:" \o input.logs \o "\n"
            \o "images:" \o ToString(Len(input.images)) \o "\n"
            \o imageLines(input.images, 1))

\* --- rate limiter: rateBuckets is a function from the keys present
RateBucketMaxSize == 10000
AnalyzeRateLimit == 40
AnalyzeRateWindowMs == 60000

MapPut(m, key, value) ==
  [k \in DOMAIN m \cup {key} |-> IF k = key THEN value ELSE m[k]]
MapRemoveNothing(m, key) == m
MapRemove(m, key) == [k \in DOMAIN m \ {key} |-> m[k]]

cleanExpiredRateBucketsEarly(buckets, t) ==
  [k \in {x \in DOMAIN buckets : ~(buckets[x].resetAt <= t + HalfSecond)} |->
     buckets[k]]
cleanExpiredRateBuckets(buckets, t) ==
  [k \in {x \in DOMAIN buckets : ~(buckets[x].resetAt <= t)} |-> buckets[k]]

\* bucket.count += 1
countRequestAndExtend(bucket) ==
  [count |-> bucket.count + 1, resetAt |-> bucket.resetAt + HalfSecond]
countRequest(bucket) == [bucket EXCEPT !.count = @ + 1]

\* isRateLimited(key, limit, windowMs): the answer and the buckets after it
isRateLimitedOffByOne(buckets, key, limit, windowMs, t) ==
  LET b == buckets
  IN IF key \notin DOMAIN b \/ b[key].resetAt <= t
       THEN [limited |-> FALSE,
             buckets |-> MapPut(b, key, [count |-> 1, resetAt |-> t + windowMs])]
     ELSE IF b[key].count > limit
       THEN [limited |-> TRUE, buckets |-> b]
     ELSE [limited |-> FALSE,
           buckets |-> MapPut(b, key, countRequest(b[key]))]
isRateLimited(buckets, key, limit, windowMs, t) ==
  LET b == IF Cardinality(DOMAIN buckets) > RateBucketMaxSize
             THEN cleanExpiredRateBuckets(buckets, t) ELSE buckets
  IN IF key \notin DOMAIN b \/ b[key].resetAt <= t
       THEN [limited |-> FALSE,
             buckets |-> MapPut(b, key, [count |-> 1, resetAt |-> t + windowMs])]
     ELSE IF b[key].count >= limit
       THEN [limited |-> TRUE, buckets |-> b]
     ELSE [limited |-> FALSE,
           buckets |-> MapPut(b, key, countRequest(b[key]))]

\* analyzeInFlight.get(cacheKey)
inFlightGetNever(inFlight, key) == NoPromise
inFlightGet(inFlight, key) ==
  IF key \in DOMAIN inFlight THEN inFlight[key] ELSE NoPromise

DemoReport == "demo report"
ETooManyAnalyze == "Too many analyze requests. Please slow down."

ActiveJobs == {j \in Slots : jobs[j].phase # "none"}
FreeSlots == {r \in Slots : handlers[r].pc = "free"}
LowestFree == CHOOSE r \in FreeSlots : \A q \in FreeSlots : r <= q

\* --- configurations and requests of the gateway specification
Clients == {"10_0_0_1"}
PdfImage == [mimeType |-> "application/pdf", data |-> HelloData]
LargeImage == [mimeType |-> "image/png", data |-> LargeData]
Bodies ==
  [logs : {"log A", "log B"}, enableGrounding : {FALSE}, images : {<< >>}]
  \cup [logs : {"log A"}, enableGrounding : {FALSE},
         images : {<<PdfImage>>, <<LargeImage>>}]
ValidBodies ==
  {b \in Bodies : normalizeAndValidateImages(
                     b.images, [maxImages |-> 1, maxImageBytes |-> 1024]).ok}
RuntimeKeys == {"AIzaRuntimeKey-0123456789"}

GatewayCfgs ==
  [llmProvider : {"gemini", "ollama"},
   geminiApiKey : {""},
   modelAnalyze : {"gemini-3-pro-preview"},
   ollamaModelAnalyze : {"llama3.1"},
   geminiRetryMaxAttempts : {2},
   analyzeCacheTtlSec : {1},
   analyzeCacheMaxEntries : {1},
   maxImages : {1},
   maxImageBytes : {1024}]

KeyOf(provider, c, body) ==
  buildAnalyzeCacheKey(
    [model |-> provider \o ":" \o
                 (IF provider = "ollama" THEN c.ollamaModelAnalyze ELSE c.modelAnalyze),
     logs |-> body.logs,
     images |-> normalizeAndValidateImages(
                  body.images, [maxImages |-> c.maxImages,
                                maxImageBytes |-> c.maxImageBytes]).images,
     enableGrounding |-> body.enableGrounding])
GatewayKeys(c) == {KeyOf(p, c, b) : p \in {"gemini", "ollama"}, b \in ValidBodies}

BucketKey(ip) == <<"analyze:", ip>>
\* the rate buckets at the start: the window of every client has begun and
\* has MaxRequests requests left
MaxRequests == 3
InitialBuckets ==
  {[k \in {BucketKey(ip) : ip \in Clients} |->
      [count |-> AnalyzeRateLimit - MaxRequests, resetAt |-> AnalyzeRateWindowMs]]}

Init ==
  /\ cfg \in GatewayCfgs
  /\ now = 0
  /\ store = << >>
  /\ hist = HistInit({})
  /\ lastOp = Quiet
  /\ rateBuckets \in InitialBuckets
  /\ runtimeGeminiApiKey = ""
  /\ analyzeInFlight = EmptyMap
  /\ handlers = [r \in Slots |-> FreeHandler]
  /\ reactions = [j \in Slots |-> << >>]
  /\ okAt = [k \in GatewayKeys(cfg) |-> NeverOk]
  /\ jobs = [j \in Slots |-> NoJob]
  /\ microtasks = << >>
  /\ abandoned = [k \in GatewayKeys(cfg) |-> 0]

\* app.post("/api/analyze"): the handler up to its first await or response
AnalyzeRequest(ip, body) ==
  LET rl == isRateLimited(rateBuckets, BucketKey(ip), AnalyzeRateLimit,
                          AnalyzeRateWindowMs, now)
      validated == normalizeAndValidateImages(
                     body.images, [maxImages |-> cfg.maxImages,
                                   maxImageBytes |-> cfg.maxImageBytes])
      provider == getActiveProvider(cfg, runtimeGeminiApiKey)
      modelAnalyze == getAnalyzeModel(cfg, runtimeGeminiApiKey)
      cacheKey == buildAnalyzeCacheKey(
                    [model |-> provider \o ":" \o modelAnalyze, logs |-> body.logs,
                     images |-> validated.images,
                     enableGrounding |-> body.enableGrounding])
      cached == cacheGetValue(cfg, store, cacheKey, now)
      afterGet == cacheGetStore(cfg, store, cacheKey, now)
      inFlight == inFlightGet(analyzeInFlight, cacheKey)
      kind == IF provider = "ollama" THEN "ollamaAnalyze" ELSE "geminiAnalyze"
  IN
  /\ microtasks = << >>
  /\ rateBuckets' = rl.buckets
  /\ IF rl.limited THEN
       /\ lastOp' = [op |-> "analyze", outcome |-> "rateLimited",
                     response |-> [status |-> 429, body |-> ETooManyAnalyze]]
       /\ UNCHANGED <<store, analyzeInFlight, handlers, reactions, jobs, okAt>>
     ELSE IF ~validated.ok THEN
       /\ lastOp' = [op |-> "analyze", outcome |-> "invalid",
                     response |-> errorResponse(validated.message),
                     error |-> validated.message,
                     storeBefore |-> store, inFlightBefore |-> analyzeInFlight,
                     jobsBefore |-> jobs]
       /\ UNCHANGED <<store, analyzeInFlight, handlers, reactions, jobs, okAt>>
     ELSE IF provider = "demo" THEN
       /\ lastOp' = [op |-> "analyze", outcome |-> "demo", images |-> body.images,
                     response |-> jsonResponse(DemoReport)]
       /\ UNCHANGED <<store, analyzeInFlight, handlers, reactions, jobs, okAt>>
     ELSE IF cached # Undefined THEN
       /\ store' = afterGet
       /\ lastOp' = [op |-> "analyze", outcome |-> "cached", key |-> cacheKey,
                     wasInFlight |-> cacheKey \in DOMAIN analyzeInFlight,
                     images |-> body.images,
                     activeBefore |-> ActiveJobs,
                     afterFailure |-> okAt[cacheKey].failed,
                     response |-> jsonResponse(cached)]
       /\ okAt' = OkAtOnLookup(okAt, cacheKey)
       /\ UNCHANGED <<analyzeInFlight, handlers, reactions, jobs>>
     ELSE IF inFlight # NoPromise THEN
       /\ FreeSlots # {}
       /\ store' = afterGet
       /\ handlers' = [handlers EXCEPT ![LowestFree] =
                         [pc |-> "awaitShared", key |-> cacheKey, job |-> inFlight]]
       /\ reactions' = [reactions EXCEPT ![inFlight] = Append(@, LowestFree)]
       /\ lastOp' = [op |-> "analyze", outcome |-> "coalesced", key |-> cacheKey,
                     wasInFlight |-> cacheKey \in DOMAIN analyzeInFlight,
                     images |-> body.images,
                     activeBefore |-> ActiveJobs,
                     afterFailure |-> okAt[cacheKey].failed,
                     jobsBefore |-> jobs,
                     slot |-> LowestFree]
       /\ okAt' = OkAtOnLookup(okAt, cacheKey)
       /\ UNCHANGED <<analyzeInFlight, jobs>>
     ELSE
       /\ FreeSlots # {}
       /\ store' = afterGet
       /\ jobs' = [jobs EXCEPT ![LowestFree] =
                     [newJob(kind, cacheKey, FALSE) EXCEPT !.model = modelAnalyze]]
       /\ analyzeInFlight' = MapPut(analyzeInFlight, cacheKey, LowestFree)
       /\ handlers' = [handlers EXCEPT ![LowestFree] =
                         [pc |-> "awaitWork", key |-> cacheKey, job |-> LowestFree]]
       /\ reactions' = [reactions EXCEPT ![LowestFree] = <<LowestFree>>]
       /\ lastOp' = [op |-> "analyze", outcome |-> "started", key |-> cacheKey,
                     wasInFlight |-> cacheKey \in DOMAIN analyzeInFlight,
                     images |-> body.images,
                     activeBefore |-> ActiveJobs,
                     afterFailure |-> okAt[cacheKey].failed,
                     slot |-> LowestFree]
       /\ okAt' = OkAtOnLookup(okAt, cacheKey)
  /\ UNCHANGED <<cfg, now, hist, runtimeGeminiApiKey, microtasks, abandoned>>

\* history: the provider and the model that the upstream calls of a job use
identityOf(job) ==
  [provider |-> IF job.kind \in OllamaKinds THEN "ollama" ELSE "gemini",
   model |-> job.model]

\* history: the work for key succeeded at t and its report was offered to the
\* cache; the unexpired keys that the set removed were evicted for capacity
OkAtOnSuccess(h, key, before, after, t, by) ==
  [k \in DOMAIN h |->
     IF k = key
       THEN [at |-> t, evicted |-> FALSE, by |-> by, switched |-> FALSE,
             failed |-> FALSE]
     ELSE IF MapHas(sweep(before, t), k) /\ ~MapHas(after, k)
       THEN [h[k] EXCEPT !.evicted = TRUE]
     ELSE h[k]]

\* history: the active provider changed while the reports were stored
OkAtOnSwitch(h, changed) ==
  [k \in DOMAIN h |->
     IF changed /\ h[k].at >= 0 THEN [h[k] EXCEPT !.switched = TRUE] ELSE h[k]]

\* analyzeCache.set(cacheKey, report) is reached only if await work returned
cachesReportAlways(result) == TRUE
cachesReport(result) == result.ok

\* the event loop resumes the next handler awaiting a promise that settled
RunMicrotask ==
  /\ microtasks # << >>
  /\ LET r == Head(microtasks)
         h == handlers[r]
         j == h.job
         result == jobs[j].result
         last == Len(microtasks) = 1
         afterSet == cacheSetStore(cfg, store, h.key, result.value, now)
         response == IF h.pc = "awaitWork" THEN ownerResponse(result)
                     ELSE waiterResponse(result)
     IN
       /\ microtasks' = Tail(microtasks)
       /\ handlers' = [handlers EXCEPT ![r] = FreeHandler]
       /\ IF h.pc = "awaitWork" /\ cachesReport(result)
            THEN /\ store' = afterSet
                 /\ okAt' = OkAtOnSuccess(okAt, h.key, store, afterSet, now,
                                          identityOf(jobs[j]))
            ELSE IF h.pc = "awaitWork"
              THEN /\ okAt' = OkAtOnFailure(okAt, h.key)
                   /\ UNCHANGED store
            ELSE UNCHANGED <<store, okAt>>
       /\ analyzeInFlight' = IF h.pc = "awaitWork"
                               THEN MapRemove(analyzeInFlight, h.key)
                               ELSE analyzeInFlight
       /\ jobs' = [jobs EXCEPT ![j] =
                     IF last THEN NoJob
                     ELSE [@ EXCEPT !.delivered = @ \cup {response}]]
       /\ reactions' = [reactions EXCEPT ![j] = IF last THEN << >> ELSE @]
       /\ lastOp' = [op |-> "respond", role |-> h.pc, key |-> h.key,
                     response |-> response, result |-> result,
                     delivered |-> jobs[j].delivered \cup {response},
                     storeChanged |-> h.pc = "awaitWork" /\ cachesReport(result)
                                      /\ afterSet # store,
                     activeBefore |-> ActiveJobs]
  /\ UNCHANGED <<cfg, now, hist, rateBuckets, runtimeGeminiApiKey, abandoned>>

\* setInterval: cleanExpiredRateBuckets(); analyzeCache.sweep()
MaintenanceTimer ==
  /\ microtasks = << >>
  /\ rateBuckets' = cleanExpiredRateBuckets(rateBuckets, now)
  /\ store' = sweep(store, now)
  /\ lastOp' = Quiet
  /\ UNCHANGED <<cfg, now, hist, runtimeGeminiApiKey, analyzeInFlight, handlers,
                 reactions, okAt, jobVars>>

\* app.put("/api/settings/api-key") with a well-formed key
PutApiKey(apiKey) ==
  /\ microtasks = << >>
  /\ runtimeGeminiApiKey' =
       IF cfg.llmProvider = "ollama" THEN runtimeGeminiApiKey ELSE apiKey
  /\ lastOp' = Quiet
  /\ UNCHANGED <<cfg, now, cacheVars, rateBuckets, analyzeInFlight, handlers,
                 reactions, okAt, jobVars>>

\* app.delete("/api/settings/api-key")
DeleteApiKey ==
  /\ microtasks = << >>
  /\ runtimeGeminiApiKey' =
       IF cfg.llmProvider = "ollama" THEN runtimeGeminiApiKey ELSE ""
  /\ okAt' = OkAtOnSwitch(okAt, getActiveProvider(cfg, runtimeGeminiApiKey) #
                                 getActiveProvider(cfg, runtimeGeminiApiKey'))
  /\ lastOp' = Quiet
  /\ UNCHANGED <<cfg, now, cacheVars, rateBuckets, analyzeInFlight, handlers,
                 reactions, jobVars>>

GatewayMaxTicks == 2     \* the clock of the gateway specification, half seconds
GatewayMaxNow == GatewayMaxTicks * HalfSecond
GatewayResponses == {"R1"}
GatewayErrors(kind) ==
  IF kind \in GeminiKinds THEN {EUnavailable, EBadKey} ELSE {EOllama503, EOllama401}

Next ==
  \/ \E ip \in Clients, body \in Bodies : AnalyzeRequest(ip, body)
  \/ RunMicrotask
  \/ \E j \in ActiveJobs, resp \in GatewayResponses : CallResolves(j, resp)
  \/ \E j \in ActiveJobs : \E msg \in GatewayErrors(jobs[j].kind) : CallRejects(j, msg)
  \/ \E j \in ActiveJobs : CallTimesOut(j)
  \/ \E j \in ActiveJobs : SleepEnds(j)
  \/ \E key \in DOMAIN abandoned : AbandonedSettles(key)
  \/ MaintenanceTimer
  \/ \E apiKey \in RuntimeKeys : PutApiKey(apiKey)
  \/ DeleteApiKey
  \/ Tick(GatewayMaxNow)

Spec == Init /\ [][Next]_vars
\* --------------------------------------------- claims on the gateway
\* The last step handled an analyze request that reached the cache lookup.
Looked ==
  /\ lastOp.op = "analyze"
  /\ lastOp.outcome \in {"cached", "coalesced", "started"}

JobsOf(key) == {j \in ActiveJobs : jobs[j].key = key}

\* C1: an analyze request handled while work for its key is pending starts no
\* backend invocation and awaits the pending one; a key never has two
\* invocations at once.
C1_Coalescing ==
  /\ \A key \in DOMAIN abandoned : Cardinality(JobsOf(key)) <= 1
  /\ \A key \in DOMAIN analyzeInFlight : JobsOf(key) = {analyzeInFlight[key]}
  /\ (Looked /\ lastOp.wasInFlight) =>
        /\ lastOp.outcome = "coalesced"
        /\ ActiveJobs = lastOp.activeBefore
        /\ handlers[lastOp.slot] =
             [pc |-> "awaitShared", key |-> lastOp.key,
              job |-> analyzeInFlight[lastOp.key]]
        /\ jobs[analyzeInFlight[lastOp.key]].phase \in {"call", "sleep"}
        /\ lastOp.slot \in
             {reactions[analyzeInFlight[lastOp.key]][i] :
                i \in 2..Len(reactions[analyzeInFlight[lastOp.key]])}

\* C1 witness: the second request arrived while the first one's work was
\* between two attempts.
C1_Witness ==
  /\ Looked
  /\ lastOp.wasInFlight
  /\ lastOp.outcome = "coalesced"
  /\ jobs[analyzeInFlight[lastOp.key]].phase = "sleep"

\* the upstream calls issued for a key that have not settled
Outstanding(key) ==
  Cardinality({j \in JobsOf(key) : jobs[j].phase = "call"}) + abandoned[key]

\* C2: for every cache key at most one upstream call issued for the key is
\* outstanding at a time, retries included.
C2_OneOutstandingCall == \A key \in DOMAIN abandoned : Outstanding(key) <= 1

\* C3: every response sent for a piece of work carries the outcome of the
\* work, the same for the handler that started it and for every handler that
\* awaited it; answering starts no work.
C3_SameOutcome ==
  lastOp.op = "respond" =>
    /\ Cardinality(lastOp.delivered) = 1
    /\ lastOp.result.ok =>
         lastOp.response = [status |-> 200, body |-> lastOp.result.value]
    /\ ~lastOp.result.ok =>
         /\ lastOp.response.body = lastOp.result.message
         /\ lastOp.response.status = classifyErrorStatus(lastOp.result.message)
    /\ ActiveJobs \subseteq lastOp.activeBefore

\* C3 witness: a waiter received the error of the shared work.
C3_Witness ==
  /\ lastOp.op = "respond"
  /\ lastOp.role = "awaitShared"
  /\ ~lastOp.result.ok
  /\ lastOp.response.body = lastOp.result.message
  /\ lastOp.response.status # 200

\* C4 as claimed: no invocation for K starts within ttlSec of a success for K.
C4_Original ==
  (Looked /\ enabled(cfg) /\ lastOp.outcome = "started") =>
    okAt[lastOp.key].at < 0

\* C4 amended: within ttlSec of a success for K, a request for K is answered
\* from the cache and starts no invocation, unless the entry of K has been
\* evicted for capacity since.
C4_OneCallPerTtlWindow ==
  (Looked /\ enabled(cfg) /\ okAt[lastOp.key].at >= 0) =>
    \/ /\ lastOp.outcome = "cached"
       /\ ActiveJobs = lastOp.activeBefore
       /\ now < okAt[lastOp.key].at + ttlSecOf(cfg) * MsPerSec
    \/ okAt[lastOp.key].evicted

\* C4 witness: a request for K, later than the success for K and within the
\* window, was answered from the cache.
C4_Witness ==
  /\ Looked
  /\ lastOp.outcome = "cached"
  /\ okAt[lastOp.key].at >= 0
  /\ ~okAt[lastOp.key].evicted
  /\ now > okAt[lastOp.key].at

\* the provider and the model under which a request is handled now: Ollama
\* when configured, Gemini when a key is set or configured, the demo otherwise
ActiveIdentity ==
  IF cfg.llmProvider = "ollama"
    THEN [provider |-> "ollama", model |-> cfg.ollamaModelAnalyze]
  ELSE IF runtimeGeminiApiKey # "" \/ cfg.geminiApiKey # ""
    THEN [provider |-> "gemini", model |-> cfg.modelAnalyze]
  ELSE [provider |-> "demo", model |-> cfg.modelAnalyze]

\* the keys that buildAnalyzeCacheKey gives under a provider and model
KeysNaming(identity) ==
  {buildAnalyzeCacheKey(
     [model |-> identity.provider \o ":" \o identity.model, logs |-> b.logs,
      images |-> normalizeAndValidateImages(
                   b.images, [maxImages |-> cfg.maxImages,
                              maxImageBytes |-> cfg.maxImageBytes]).images,
      enableGrounding |-> b.enableGrounding]) : b \in ValidBodies}

\* C12: a report answered from the cache, or awaited from in-flight work, was
\* or is being produced under the provider and the model that are active when
\* the request is handled; every stored entry that can still be returned was
\* produced under the identity its key names.
C12_NoCrossProviderHit ==
  /\ \A i \in 1..Len(store) : ~isExpired(store[i], now) =>
        /\ okAt[store[i].key].at >= 0
        /\ store[i].key \in KeysNaming(okAt[store[i].key].by)
  /\ (Looked /\ lastOp.outcome = "cached") =>
        okAt[lastOp.key].by = ActiveIdentity
  /\ (Looked /\ lastOp.outcome = "coalesced") =>
        identityOf(jobs[analyzeInFlight[lastOp.key]]) = ActiveIdentity

\* C12 witness: after the runtime key was cleared and set again, a request
\* was answered from the cache with a report produced under Gemini before.
C12_Witness ==
  /\ Looked
  /\ lastOp.outcome = "cached"
  /\ cfg.llmProvider = "gemini"
  /\ okAt[lastOp.key].by.provider = "gemini"
  /\ okAt[lastOp.key].switched

\* the work of job j has not settled
Pending(j) == jobs[j].phase \in {"call", "sleep"}

\* C14: whenever a request can be handled, the in-flight map holds exactly
\* the keys whose work is pending, each with its own job; an entry of settled
\* work exists only until the handler that started the work is resumed, which
\* happens before any waiter is resumed and before any other request; a request
\* that starts work creates the entry.
C14_InFlightLifetime ==
  /\ \A key \in DOMAIN analyzeInFlight :
        LET j == analyzeInFlight[key] IN
          /\ jobs[j].phase # "none"
          /\ jobs[j].key = key
          /\ ~Pending(j) =>
               /\ microtasks # << >>
               /\ handlers[Head(microtasks)] =
                    [pc |-> "awaitWork", key |-> key, job |-> j]
  /\ \A j \in Slots : Pending(j) =>
        /\ jobs[j].key \in DOMAIN analyzeInFlight
        /\ analyzeInFlight[jobs[j].key] = j
  /\ microtasks = << >> =>
        \A key \in DOMAIN analyzeInFlight : Pending(analyzeInFlight[key])
  /\ (Looked /\ lastOp.outcome = "started") =>
        /\ ~lastOp.wasInFlight
        /\ analyzeInFlight[lastOp.key] = lastOp.slot
        /\ Pending(lastOp.slot)
  /\ (lastOp.op = "respond" /\ lastOp.role = "awaitWork") =>
        lastOp.key \notin DOMAIN analyzeInFlight

\* C14 witness: the work failed with a waiter attached; the entry was removed
\* when the handler that started the work was resumed, the waiter not yet.
C14_Witness ==
  /\ lastOp.op = "respond"
  /\ lastOp.role = "awaitWork"
  /\ ~lastOp.result.ok
  /\ microtasks # << >>
  /\ lastOp.key \notin DOMAIN analyzeInFlight

\* an image with an unsupported mime type, a payload that is not base64 or
\* a payload above maxImageBytes
InvalidImage(row) ==
  LET mimeType == IF row.data.dataUrlMime # "" THEN row.data.dataUrlMime
                  ELSE IF row.mimeType # "" THEN row.mimeType ELSE "image/png"
  IN /\ ~(row.data.dataUrlMime = "" /\ row.data.len = 0)
     /\ \/ mimeType \notin AllowedImageMimeTypes
        \/ /\ row.data.len > 0
           /\ \/ ~row.data.base64
              \/ ((row.data.len * 3) \div 4) - row.data.pad > cfg.maxImageBytes

\* C16: no request with an invalid image gets past the validation, and
\* a request whose images fail validation is answered with the error of
\* the validation and its status (400, or 413 for an oversized image); it
\* starts no backend work, makes no upstream call, and leaves the cache and
\* the in-flight map as they were.
C16_ValidationFailure ==
  /\ (lastOp.op = "analyze" /\ lastOp.outcome \notin {"invalid", "rateLimited"}) =>
       \A i \in 1..Len(lastOp.images) : ~InvalidImage(lastOp.images[i])
  /\ (lastOp.op = "analyze" /\ lastOp.outcome = "invalid") =>
    /\ lastOp.error \in ImageErrors.unsupported \cup ImageErrors.tooLarge
                        \cup {EInvalidBase64}
    /\ lastOp.response.body = lastOp.error
    /\ lastOp.response.status =
         IF lastOp.error \in ImageErrors.tooLarge THEN 413 ELSE 400
    /\ jobs = lastOp.jobsBefore
    /\ store = lastOp.storeBefore
    /\ analyzeInFlight = lastOp.inFlightBefore
    /\ microtasks = << >>

\* C16 witness: an oversized image was refused while work was pending and a
\* report was cached.
C16_Witness ==
  /\ lastOp.op = "analyze"
  /\ lastOp.outcome = "invalid"
  /\ lastOp.response.status = 413
  /\ ActiveJobs # {}
  /\ size(store) > 0

\* C25: when the work for a key fails, the handler that started it leaves the
\* cache as it is and removes the in-flight entry, and the cache holds no
\* entry for the key; only reports are ever stored; the next request that
\* looks the key up starts new work.
C25_FailureNotCached ==
  /\ (lastOp.op = "respond" /\ lastOp.role = "awaitWork" /\ ~lastOp.result.ok) =>
        /\ ~lastOp.storeChanged
        /\ lastOp.key \notin DOMAIN analyzeInFlight
        /\ ~MapHas(store, lastOp.key)
  /\ \A i \in 1..Len(store) : store[i].value \in GatewayResponses
  /\ (Looked /\ lastOp.afterFailure) => lastOp.outcome = "started"

\* C25 witness: the request after a failure of its key started new work
\* while the report of the other key was in the cache.
C25_Witness ==
  /\ Looked
  /\ lastOp.afterFailure
  /\ lastOp.outcome = "started"
  /\ size(store) > 0

\* the upstream generation calls one adapter call may make
CallBound(kind) ==
  IF kind = "geminiAnalyze" THEN 2 * maxAttemptsOf(cfg) ELSE maxAttemptsOf(cfg)

\* C30: the upstream calls made for one analyze request number at most
\* 2 x maxAttempts through the Gemini adapter and at most maxAttempts through
\* the Ollama adapter, maxAttempts being within 1..6; a request that joins
\* work in flight starts no job and adds no call.
C30_BoundedCalls ==
  /\ maxAttemptsOf(cfg) \in AttemptsMin..AttemptsMax
  /\ \A j \in Slots : jobs[j].phase # "none" =>
        jobs[j].calls >= 1 /\ jobs[j].calls <= CallBound(jobs[j].kind)
  /\ (Looked /\ lastOp.outcome = "coalesced") => jobs = lastOp.jobsBefore

\* C30 witness: a request joined the Gemini work of its key when that work
\* was in the last attempt of its second strategy, 2 x maxAttempts calls made.
C30_Witness ==
  /\ Looked
  /\ lastOp.outcome = "coalesced"
  /\ \E j \in Slots :
        /\ jobs[j].phase = "call"
        /\ jobs[j].kind = "geminiAnalyze"
        /\ jobs[j].key = lastOp.key
        /\ jobs[j].calls = 2 * maxAttemptsOf(cfg)
        /\ maxAttemptsOf(cfg) >= 2

\* ------------------------------------------- gateway under fair scheduling
\* The pending upstream call of job j settles or is cut off by its timeout.
CallEnds(j) ==
  \/ \E resp \in GatewayResponses : CallResolves(j, resp)
  \/ \E msg \in GatewayErrors(jobs[j].kind) : CallRejects(j, msg)
  \/ CallTimesOut(j)

\* The event loop runs every queued continuation, every pending upstream call
\* ends and every backoff timer fires.
Fairness ==
  /\ WF_vars(RunMicrotask)
  /\ \A j \in Slots : WF_vars(j \in ActiveJobs /\ CallEnds(j))
  /\ \A j \in Slots : WF_vars(j \in ActiveJobs /\ SleepEnds(j))

SpecLive == Init /\ [][Next]_vars /\ Fairness

Suspended(r) == handlers[r].pc # "free"

\* C29: every request suspended at an await, the one that started the work
\* and every waiter, is eventually answered, and is released by exactly one
\* response; from some point on the in-flight map stays empty and no request
\* is suspended, so that every in-flight entry is eventually removed.
C29_Liveness ==
  /\ \A r \in Slots : Suspended(r) ~> ~Suspended(r)
  /\ <>[](analyzeInFlight = EmptyMap /\ \A r \in Slots : ~Suspended(r))
  /\ [][\A r \in Slots :
          (Suspended(r) /\ handlers'[r] # handlers[r]) =>
             /\ lastOp'.op = "respond"
             /\ handlers'[r] = FreeHandler
             /\ \A q \in Slots \ {r} : handlers'[q] = handlers[q]]_vars

\* C29 witness: the waiter of a settled work was answered after the handler
\* that started it, and nothing is left in flight or suspended.
C29_Witness ==
  /\ lastOp.op = "respond"
  /\ lastOp.role = "awaitShared"
  /\ Cardinality(lastOp.delivered) = 1
  /\ analyzeInFlight = EmptyMap
  /\ \A r \in Slots : ~Suspended(r)

\* ------------------------- gateway with the cache switched off
\* ANALYZE_CACHE_TTL_SEC = 0 or ANALYZE_CACHE_MAX_ENTRIES = 0; the Gemini key
\* comes from the environment and the api-key routes are not called
DisabledCfgs ==
  {c \in [llmProvider : {"gemini", "ollama"},
          geminiApiKey : {"AIzaEnvKey-0123456789"},
          modelAnalyze : {"gemini-3-pro-preview"},
          ollamaModelAnalyze : {"llama3.1"},
          geminiRetryMaxAttempts : {2},
          analyzeCacheTtlSec : {0, 1},
          analyzeCacheMaxEntries : {0, 1},
          maxImages : {1},
          maxImageBytes : {1024}] :
     c.analyzeCacheTtlSec = 0 \/ c.analyzeCacheMaxEntries = 0}

InitDisabled ==
  /\ cfg \in DisabledCfgs
  /\ now = 0
  /\ store = << >>
  /\ hist = HistInit({})
  /\ lastOp = Quiet
  /\ rateBuckets \in InitialBuckets
  /\ runtimeGeminiApiKey = ""
  /\ analyzeInFlight = EmptyMap
  /\ handlers = [r \in Slots |-> FreeHandler]
  /\ reactions = [j \in Slots |-> << >>]
  /\ okAt = [k \in GatewayKeys(cfg) |-> NeverOk]
  /\ jobs = [j \in Slots |-> NoJob]
  /\ microtasks = << >>
  /\ abandoned = [k \in GatewayKeys(cfg) |-> 0]

NextDisabled ==
  \/ \E ip \in Clients, body \in Bodies : AnalyzeRequest(ip, body)
  \/ RunMicrotask
  \/ \E j \in ActiveJobs, resp \in GatewayResponses : CallResolves(j, resp)
  \/ \E j \in ActiveJobs : \E msg \in GatewayErrors(jobs[j].kind) : CallRejects(j, msg)
  \/ \E j \in ActiveJobs : CallTimesOut(j)
  \/ \E j \in ActiveJobs : SleepEnds(j)
  \/ \E key \in DOMAIN abandoned : AbandonedSettles(key)
  \/ MaintenanceTimer
  \/ Tick(GatewayMaxNow)

SpecDisabled == InitDisabled /\ [][NextDisabled]_vars

\* the handlers that are resumed when job j settles, or are being resumed
Awaiting(j) ==
  {reactions[j][i] : i \in 1..Len(reactions[j])} \cup
  {microtasks[i] : i \in 1..Len(microtasks)}

\* C13: with ttlSec = 0 or maxEntries = 0 the cache stays empty and no request
\* is answered from it; every request that passed the rate limiter and the
\* demo check waits for the work of its key, and is answered with the report
\* or the error of that work.
C13_DisabledCache ==
  /\ ttlSecOf(cfg) = 0 \/ maxEntriesOf(cfg) = 0
  /\ size(store) = 0
  /\ \A key \in GatewayKeys(cfg) : cacheGetValue(cfg, store, key, now) = Undefined
  /\ Looked => lastOp.outcome # "cached"
  /\ \A r \in Slots : handlers[r].pc # "free" =>
        /\ jobs[handlers[r].job].phase # "none"
        /\ jobs[handlers[r].job].key = handlers[r].key
        /\ r \in Awaiting(handlers[r].job)
  /\ lastOp.op = "respond" =>
        /\ lastOp.result.ok =>
             lastOp.response = [status |-> 200, body |-> lastOp.result.value]
        /\ ~lastOp.result.ok =>
             lastOp.response =
               [status |-> classifyErrorStatus(lastOp.result.message),
                body |-> lastOp.result.message]

\* C13 witness: right after a success for its key, a request for the same key
\* started new work, the report not having been stored.
C13_Witness ==
  /\ Looked
  /\ lastOp.outcome = "started"
  /\ okAt[lastOp.key].at >= 0
  /\ size(store) = 0

\* ------------------------- image validation specification
ImageCfgs == [maxImages : 0..MaxRawImages, maxImageBytes : ImageByteLimits]

InitImages ==
  /\ cfg \in ImageCfgs
  /\ now = 0
  /\ store = << >>
  /\ hist = HistInit({})
  /\ \E imagesRaw \in RawImageLists :
       lastOp = [op |-> "images", imagesRaw |-> imagesRaw]
  /\ IdleGateway
  /\ jobs = [j \in Slots |-> NoJob]
  /\ microtasks = << >>
  /\ abandoned = EmptyMap

NormalizeImages ==
  /\ lastOp.op = "images"
  /\ lastOp' = [op |-> "normalize", imagesRaw |-> lastOp.imagesRaw,
                result |-> normalizeAndValidateImages(lastOp.imagesRaw, cfg)]
  /\ UNCHANGED <<cfg, now, cacheVars, gatewayVars, jobVars>>

NextImages == NormalizeImages

SpecImages == InitImages /\ [][NextImages]_vars

\* C15: normalizeAndValidateImages returns at most maxImages images.
C15_AtMostMaxImages ==
  (lastOp.op = "normalize" /\ lastOp.result.ok) =>
    Len(lastOp.result.images) <= cfg.maxImages

\* ------------------------------------------------ log text
\* A text is a sequence of characters. What clampText returns is the kept
\* characters and, when it truncated, the number its marker
\* "\n\n...[truncated N chars]" reports (NoMarker otherwise).
NoMarker == -1
TruncationReserve == 20
Space == " "

slice(t, from, to) == SubSeq(t, from + 1, Min(Len(t), to))

RECURSIVE trimStart(_)
trimStart(t) == IF t # << >> /\ Head(t) = Space THEN trimStart(Tail(t)) ELSE t
RECURSIVE trimEnd(_)
trimEnd(t) ==
  IF t # << >> /\ t[Len(t)] = Space THEN trimEnd(SubSeq(t, 1, Len(t) - 1)) ELSE t
trim(t) == trimEnd(trimStart(t))

\* clampText(s, max)
clampText(t, max) ==
  LET trimmed == trim(t) IN
    IF Len(trimmed) <= max THEN [text |-> trimmed, marker |-> NoMarker]
    ELSE [text |-> slice(trimmed, 0, Max(0, max - TruncationReserve)),
          marker |-> Len(trimmed) - max]

\* the logs of an analyze request as the adapter puts them into the prompt:
\* String(body.logs || "").slice(0, cfg.maxLogChars) in the route, then
\* clampText(input.logs, input.maxLogChars) in the adapter
logsForBackend(bodyLogs, maxLogChars) ==
  clampText(slice(bodyLogs, 0, maxLogChars), maxLogChars)

\* --- specification: every short log text under every small maxLogChars
MaxLogLen == 5
LogTexts == UNION {[1..n -> {"a", Space}] : n \in 0..MaxLogLen}
LogCfgs == [maxLogChars : 1..(MaxLogLen - 1)]

InitLogs ==
  /\ cfg \in LogCfgs
  /\ now = 0
  /\ store = << >>
  /\ hist = HistInit({})
  /\ \E logs \in LogTexts : lastOp = [op |-> "logs", logs |-> logs]
  /\ IdleGateway
  /\ jobs = [j \in Slots |-> NoJob]
  /\ microtasks = << >>
  /\ abandoned = EmptyMap

PrepareLogs ==
  /\ lastOp.op = "logs"
  /\ lastOp' = [op |-> "prompt", logs |-> lastOp.logs,
                handed |-> logsForBackend(lastOp.logs, cfg.maxLogChars)]
  /\ UNCHANGED <<cfg, now, cacheVars, gatewayVars, jobVars>>

NextLogs == PrepareLogs

SpecLogs == InitLogs /\ [][NextLogs]_vars

\* C17: when the submitted log text is longer than maxLogChars, the text
\* handed to the backend has at most maxLogChars characters and carries a
\* truncation marker.
C17_TruncationFlagged ==
  (lastOp.op = "prompt" /\ Len(lastOp.logs) > cfg.maxLogChars) =>
    /\ Len(lastOp.handed.text) <= cfg.maxLogChars
    /\ lastOp.handed.marker # NoMarker

\* ------------------------------------------------ cache key specification
\* two inputs of buildAnalyzeCacheKey, then their keys
MaxKeyImages == 2
RouteModels == {"gemini:m", "ollama:m"}
LineBreakModels == {"gemini:m\ngrounding:0\nlogs:x"}
KeyLogs == {"y", "x\ngrounding:0\nlogs:y"}
HelloPng == [mimeType |-> "image/png", data |-> HelloData.text]
WorldPng == [mimeType |-> "image/png", data |-> WorldData.text]
HelloNoMime == [mimeType |-> "", data |-> HelloData.text]
KeyImages == {HelloPng, WorldPng, HelloNoMime}
KeyImageLists == UNION {[1..n -> KeyImages] : n \in 0..MaxKeyImages}
KeyInputs ==
  [model : RouteModels \cup LineBreakModels, logs : KeyLogs,
   enableGrounding : BOOLEAN, images : KeyImageLists]

\* an input as the analyze route builds it: the model is provider:model of
\* one line, the images are those normalizeAndValidateImages returned
RouteBuilt(input) ==
  /\ input.model \in RouteModels
  /\ \A i \in 1..Len(input.images) :
        input.images[i].mimeType \in AllowedImageMimeTypes

InitKeys ==
  /\ cfg = [maxImages |-> MaxKeyImages]
  /\ now = 0
  /\ store = << >>
  /\ hist = HistInit({})
  /\ \E a \in KeyInputs, b \in KeyInputs :
        lastOp = [op |-> "keyInputs", a |-> a, b |-> b]
  /\ IdleGateway
  /\ jobs = [j \in Slots |-> NoJob]
  /\ microtasks = << >>
  /\ abandoned = EmptyMap

BuildKeys ==
  /\ lastOp.op = "keyInputs"
  /\ lastOp' = [op |-> "keys", a |-> lastOp.a, b |-> lastOp.b,
                keyA |-> buildAnalyzeCacheKey(lastOp.a),
                keyB |-> buildAnalyzeCacheKey(lastOp.b)]
  /\ UNCHANGED <<cfg, now, cacheVars, gatewayVars, jobVars>>

NextKeys == BuildKeys

SpecKeys == InitKeys /\ [][NextKeys]_vars

DefaultTimeoutMs == 45000
TimeoutMinMs == 5000
TimeoutMaxMs == 180000
\* clampNumber(Number(timeoutMs || 45_000), 5_000, 180_000)
timeoutMsOf(c) ==
  clampNumber(IF c.geminiTimeoutMs = 0 THEN DefaultTimeoutMs ELSE c.geminiTimeoutMs,
              TimeoutMinMs, TimeoutMaxMs)

MaxTimedAttempts == 2
TimeoutOptions == {0, 1000, 10000, 200000}
TimedKinds == {"geminiAnalyze", "geminiFollowUp", "ollamaAnalyze"}
TimedResponses == {"R1", EmptyText}

InFlightPhases == {"call", "body", "errorBody"}

\* the attempt that after starts, if any, sets its timer at t
startTimer(before, after, t, c) ==
  IF after.phase = "call" /\ after.calls > before.calls
    THEN [after EXCEPT !.startedAt = t, !.timeoutAt = t + timeoutMsOf(c)]
    ELSE after

\* what the attempt fails with when its timer fires: withTimeout's error;
\* for Ollama the AbortError of fetch becomes the timeout error, the
\* AbortError of res.json() is swallowed and the empty payload raises
\* "Empty response from Ollama.", that of res.text() leaves the HTTP error
timerError(job) ==
  CASE job.phase = "body" -> EOllamaEmpty
    [] job.phase = "errorBody" -> job.httpError
    [] OTHER -> TimeoutMessage(job.kind)

InitTimed ==
  /\ cfg \in [geminiRetryMaxAttempts : 1..MaxTimedAttempts,
               geminiTimeoutMs : TimeoutOptions]
  /\ now = 0
  /\ store = << >>
  /\ hist = HistInit({})
  /\ lastOp = Quiet
  /\ IdleGateway
  /\ \E kind \in TimedKinds :
       jobs = [j \in Slots |->
                 IF j = 1
                   THEN [startedAt |-> 0, timeoutAt |-> timeoutMsOf(cfg),
                         httpError |-> ""] @@ newJob(kind, SoloKey, TRUE)
                   ELSE NoJob]
  /\ microtasks = << >>
  /\ abandoned = [k \in {SoloKey} |-> 0]

\* the instants of an attempt at which the clock is looked at: shortly after
\* its start, shortly before its deadline, at its deadline
Instants(job) ==
  {job.startedAt + TimeoutMinMs \div 2, job.timeoutAt - TimeoutMinMs \div 2,
   job.timeoutAt}

\* time passes while a call is in flight; a timer that is due fires before
\* time passes on
TimedTick(t) ==
  /\ jobs[1].phase \in InFlightPhases
  /\ t \in Instants(jobs[1])
  /\ t > now
  /\ now' = t
  /\ lastOp' = Quiet
  /\ UNCHANGED <<cfg, cacheVars, gatewayVars, jobVars>>

\* fetch resolves with the response headers of Ollama
TimedHeadersArrive(httpError) ==
  /\ jobs[1].kind \in OllamaKinds
  /\ jobs[1].phase = "call"
  /\ jobs' = [jobs EXCEPT ![1] =
                [@ EXCEPT !.phase = IF httpError = "" THEN "body" ELSE "errorBody",
                          !.httpError = httpError]]
  /\ lastOp' = Quiet
  /\ UNCHANGED <<cfg, now, cacheVars, gatewayVars, microtasks, abandoned>>

\* the backend's answer is complete before the timer fires
TimedCallResolves(resp) ==
  /\ jobs[1].phase = IF jobs[1].kind \in OllamaKinds THEN "body" ELSE "call"
  /\ jobs' = [jobs EXCEPT ![1] =
                startTimer(@, callResolved(@, cfg, resp), now, cfg)]
  /\ lastOp' = Quiet
  /\ UNCHANGED <<cfg, now, cacheVars, gatewayVars, microtasks, abandoned>>

\* the backend's call fails before the timer fires
TimedCallRejects(msg) ==
  /\ jobs[1].phase = IF jobs[1].kind \in OllamaKinds THEN "errorBody" ELSE "call"
  /\ jobs[1].kind \in OllamaKinds => msg = jobs[1].httpError
  /\ jobs' = [jobs EXCEPT ![1] =
                startTimer(@, attemptFailed(@, cfg, msg), now, cfg)]
  /\ lastOp' = Quiet
  /\ UNCHANGED <<cfg, now, cacheVars, gatewayVars, microtasks, abandoned>>

\* the timer of the attempt fires
TimedCallTimesOut ==
  /\ jobs[1].phase \in InFlightPhases
  /\ now = jobs[1].timeoutAt
  /\ leavesCallPending(jobs[1].kind) => abandoned[SoloKey] < MaxAbandoned
  /\ LET job == startTimer(jobs[1],
                           attemptFailed(jobs[1], cfg, timerError(jobs[1])),
                           now, cfg)
     IN /\ jobs' = [jobs EXCEPT ![1] = job]
        /\ lastOp' = [op |-> "timeout", kind |-> jobs[1].kind,
                      during |-> jobs[1].phase, at |-> now,
                      startedAt |-> jobs[1].startedAt,
                      attempt |-> jobs[1].attempt,
                      error |-> timerError(jobs[1]),
                      phaseAfter |-> job.phase]
  /\ abandoned' = IF leavesCallPending(jobs[1].kind)
                    THEN [abandoned EXCEPT ![SoloKey] = @ + 1]
                    ELSE abandoned
  /\ UNCHANGED <<cfg, now, cacheVars, gatewayVars, microtasks>>

\* the backoff sleep ends and the next attempt starts
TimedSleepEnds ==
  /\ jobs[1].phase = "sleep"
  /\ jobs' = [jobs EXCEPT ![1] = startTimer(@, sleepOver(@), now, cfg)]
  /\ lastOp' = Quiet
  /\ UNCHANGED <<cfg, now, cacheVars, gatewayVars, microtasks, abandoned>>

\* a Gemini call abandoned by withTimeout settles: the race is over
TimedAbandonedSettles ==
  /\ abandoned[SoloKey] > 0
  /\ abandoned' = [abandoned EXCEPT ![SoloKey] = @ - 1]
  /\ lastOp' = [op |-> "abandonedSettles", jobBefore |-> jobs[1]]
  /\ UNCHANGED <<cfg, now, cacheVars, gatewayVars, jobs, microtasks>>

NextTimed ==
  \/ \E t \in Instants(jobs[1]) : TimedTick(t)
  \/ \E e \in {""} \cup UpstreamErrors(jobs[1].kind) : TimedHeadersArrive(e)
  \/ \E resp \in TimedResponses : TimedCallResolves(resp)
  \/ \E msg \in UpstreamErrors(jobs[1].kind) : TimedCallRejects(msg)
  \/ TimedCallTimesOut
  \/ TimedSleepEnds
  \/ TimedAbandonedSettles
  \/ RouteResponds

SpecTimed == InitTimed /\ [][NextTimed]_vars

\* C19: no backend call stays unsettled past its deadline, which lies the
\* configured timeout clamped to 5s..180s after its start; the attempt
\* fails at the deadline with the timeout error, which is retriable, so that
\* another attempt follows when attempts remain; an abandoned call that
\* settles later changes nothing of the request.
C19_TimeoutBoundary ==
  /\ jobs[1].phase \in InFlightPhases =>
        /\ now <= jobs[1].timeoutAt
        /\ jobs[1].timeoutAt - jobs[1].startedAt \in TimeoutMinMs..TimeoutMaxMs
  /\ lastOp.op = "timeout" =>
        /\ lastOp.at = lastOp.startedAt + timeoutMsOf(cfg)
        /\ lastOp.error = TimeoutMessage(lastOp.kind)
        /\ isRetriable(lastOp.kind, lastOp.error)
        /\ lastOp.attempt < maxAttemptsOf(cfg) => lastOp.phaseAfter = "sleep"
  /\ lastOp.op = "abandonedSettles" => jobs[1] = lastOp.jobBefore

\* ------------------------------------------------ backoff specification
\* withRetry around an operation that fails with a retriable error at every
\* attempt: the delays it sleeps. The jitter 0.7 + Math.random() * 0.6 is a
\* number of thousandths.
DefaultBaseDelayMs == 400
BaseDelayMinMs == 50
BaseDelayMaxMs == 5000
DelayMinMs == 50
DelayMaxMs == 10000
Thousand == 1000
JitterOne == Thousand
Jitters == {700, JitterOne, 1300}

\* clampNumber(Number(input.baseDelayMs || 400), 50, 5_000)
baseDelayMsOf(c) ==
  clampNumber(IF c.geminiRetryBaseDelayMs = 0 THEN DefaultBaseDelayMs
              ELSE c.geminiRetryBaseDelayMs, BaseDelayMinMs, BaseDelayMaxMs)

\* Math.round of x thousandths
roundThousandthsDown(x) == x \div Thousand
roundThousandths(x) == (x + Thousand \div 2) \div Thousand

\* clampNumber(Math.round(baseDelayMs * Math.pow(2, attempt - 1) * jitter), 50, 10_000)
backoffDelayFlat(baseDelayMs, attempt, jitter) ==
  clampNumber(roundThousandths(baseDelayMs * jitter), DelayMinMs, DelayMaxMs)
backoffDelay(baseDelayMs, attempt, jitter) ==
  clampNumber(roundThousandths(baseDelayMs * 2^(attempt - 1) * jitter),
              DelayMinMs, DelayMaxMs)

BaseDelayOptions == {0, 1, 50, 400, 1249, 1250, 5000, 99999}
BackoffCfgs ==
  [geminiRetryMaxAttempts : RetryAttemptOptions,
   geminiRetryBaseDelayMs : BaseDelayOptions]

InitBackoff ==
  /\ cfg \in BackoffCfgs
  /\ now = 0
  /\ store = << >>
  /\ hist = HistInit({})
  /\ lastOp = [op |-> "attempt", attempt |-> 1, delays |-> << >>,
               jitters |-> << >>]
  /\ IdleGateway
  /\ jobs = [j \in Slots |-> NoJob]
  /\ microtasks = << >>
  /\ abandoned = EmptyMap

\* the attempt fails with a retriable error and withRetry sleeps
AttemptFailsAndSleeps(jitter) ==
  /\ lastOp.op = "attempt"
  /\ ~(lastOp.attempt >= maxAttemptsOf(cfg))
  /\ lastOp' = [lastOp EXCEPT
                  !.attempt = @ + 1,
                  !.delays = Append(@, backoffDelay(baseDelayMsOf(cfg),
                                                    lastOp.attempt, jitter)),
                  !.jitters = Append(@, jitter)]
  /\ UNCHANGED <<cfg, now, cacheVars, gatewayVars, jobVars>>

\* the last attempt fails and withRetry throws
AttemptFailsAndThrows ==
  /\ lastOp.op = "attempt"
  /\ lastOp.attempt >= maxAttemptsOf(cfg)
  /\ lastOp' = [lastOp EXCEPT !.op = "threw"]
  /\ UNCHANGED <<cfg, now, cacheVars, gatewayVars, jobVars>>

NextBackoff ==
  \/ \E jitter \in Jitters : AttemptFailsAndSleeps(jitter)
  \/ AttemptFailsAndThrows

SpecBackoff == InitBackoff /\ [][NextBackoff]_vars

\* the run so far drew the jitter factor 1 every time
JitterFree == \A i \in 1..Len(lastOp.jitters) : lastOp.jitters[i] = JitterOne

\* C20 as stated: with jitter factor 1 the delays slept between successive
\* attempts are strictly increasing.
C20_Original ==
  JitterFree =>
    \A i \in 1..(Len(lastOp.delays) - 1) : lastOp.delays[i] < lastOp.delays[i + 1]

\* C20: with jitter factor 1 the delays slept between successive attempts
\* never decrease, and each is larger than the one before as long as that
\* one is below the upper bound of 10000 ms.
C20_IncreasingUpToCap ==
  JitterFree =>
    \A i \in 1..(Len(lastOp.delays) - 1) :
      /\ lastOp.delays[i] <= lastOp.delays[i + 1]
      /\ lastOp.delays[i] < DelayMaxMs => lastOp.delays[i] < lastOp.delays[i + 1]

\* C20 witness: with baseDelayMs 5000 and 6 attempts the run slept 5000 ms
\* and then four times 10000 ms before it threw.
C20_Witness ==
  /\ lastOp.op = "threw"
  /\ JitterFree
  /\ cfg.geminiRetryBaseDelayMs = BaseDelayMaxMs
  /\ lastOp.delays = <<5000, 10000, 10000, 10000, 10000>>

\* the delay that the claim's formula gives for the sleep before attempt n,
\* with the exponent e
formulaDelay(e, jitter) ==
  LET product == baseDelayMsOf(cfg) * 2^e * jitter
      rounded == (product + 500) \div 1000
  IN IF rounded < 50 THEN 50 ELSE IF rounded > 10000 THEN 10000 ELSE rounded

\* C22 as stated: the delay slept before attempt n (n >= 2) is
\* baseDelay * 2^(n-1) * jitter, rounded and clamped to 50..10000 ms.
C22_Original ==
  \A n \in 2..(Len(lastOp.delays) + 1) :
    lastOp.delays[n - 1] = formulaDelay(n - 1, lastOp.jitters[n - 1])

\* C22: the delay slept before attempt n (n >= 2) is
\* baseDelay * 2^(n-2) * jitter, rounded and clamped to 50..10000 ms, with
\* the jitter between 0.7 and 1.3.
C22_DelayFormula ==
  \A n \in 2..(Len(lastOp.delays) + 1) :
    /\ lastOp.jitters[n - 1] \in 700..1300
    /\ lastOp.delays[n - 1] = formulaDelay(n - 2, lastOp.jitters[n - 1])
    /\ lastOp.delays[n - 1] \in 50..10000

\* C22 witness: with baseDelayMs 1249 the run slept 1624 ms (jitter 1.3)
\* before attempt 2, 1749 ms (jitter 0.7) before attempt 3 and the upper
\* bound 10000 ms before attempt 5.
C22_Witness ==
  /\ cfg.geminiRetryBaseDelayMs = 1249
  /\ Len(lastOp.delays) = 4
  /\ lastOp.jitters = <<1300, 700, 1000, 1300>>
  /\ lastOp.delays = <<1624, 1749, 4996, 10000>>

\* ------------------------------------------------ report fields
\* The free-text fields of the report that geminiAnalyzeIncident builds from
\* the parsed backend output: asString(value, fallback, maxChars).
Chars(n) == [i \in 1..n |-> "a"]
Spaces(n) == [i \in 1..n |-> Space]

\* the number of decimal digits of n >= 0
RECURSIVE digits(_)
digits(n) == IF n < 10 THEN 1 ELSE 1 + digits(n \div 10)

\* the length of "\n\n...[truncated N chars]"
MarkerFixedLength == 23
markerLength(n) == MarkerFixedLength + digits(n)

\* the length of the string that clampText returned
clampedLength(clamped) ==
  Len(clamped.text)
  + (IF clamped.marker = NoMarker THEN 0 ELSE markerLength(clamped.marker))

\* a value of the parsed output: a string, or something else
StringValue(text) == [isString |-> TRUE, text |-> text]
NotAString == [isString |-> FALSE, text |-> << >>]
asString(value, fallback, maxChars) ==
  clampText(IF value.isString THEN value.text ELSE fallback, maxChars)

\* title, timeline time, tag, timeline description, rootCause, owner
ReportFields ==
  {[name |-> "title", fallback |-> Chars(17), maxChars |-> 180],
   [name |-> "timeline.time", fallback |-> Chars(7), maxChars |-> 32],
   [name |-> "tags", fallback |-> << >>, maxChars |-> 60],
   [name |-> "timeline.description", fallback |-> << >>, maxChars |-> 400],
   [name |-> "rootCauses", fallback |-> << >>, maxChars |-> 500],
   [name |-> "actionItems.owner", fallback |-> << >>, maxChars |-> 120]}

\* the backend's strings: up to MaxExcess characters longer than the limit,
\* with or without white space around them
MaxExcess == 2
FieldValues(field) ==
  {NotAString, StringValue(<< >>), StringValue(Chars(1))}
  \cup {StringValue(Spaces(p) \o Chars(field.maxChars + d) \o Spaces(p)) :
          p \in 0..1, d \in (0 - MaxExcess)..MaxExcess}
  \cup {StringValue(Chars(10 * field.maxChars))}

InitFields ==
  /\ cfg = [maxLogChars |-> 0]
  /\ now = 0
  /\ store = << >>
  /\ hist = HistInit({})
  /\ \E field \in ReportFields : \E value \in FieldValues(field) :
        lastOp = [op |-> "raw", field |-> field, value |-> value]
  /\ IdleGateway
  /\ jobs = [j \in Slots |-> NoJob]
  /\ microtasks = << >>
  /\ abandoned = EmptyMap

StoreField ==
  /\ lastOp.op = "raw"
  /\ lastOp' = [op |-> "stored", field |-> lastOp.field, value |-> lastOp.value,
                stored |-> asString(lastOp.value, lastOp.field.fallback,
                                    lastOp.field.maxChars)]
  /\ UNCHANGED <<cfg, now, cacheVars, gatewayVars, jobVars>>

NextFields == StoreField

SpecFields == InitFields /\ [][NextFields]_vars

\* C21: every free-text field stored in the report is at most as long as the
\* limit of the field.
C21_FieldsClamped ==
  lastOp.op = "stored" => clampedLength(lastOp.stored) <= lastOp.field.maxChars

\* ------------------------------------------- set of a key that is stored
\* The last operation was a set of a key the enabled cache held.
SetOfStored ==
  /\ lastOp.op = "set"
  /\ enabled(cfg)
  /\ MapHas(lastOp.before, lastOp.key)

\* the entries of s other than key that have not expired at t, in order
OthersUnexpired(s, key, t) ==
  SelectSeq(s, LAMBDA e : e.key # key /\ e.expiresAt > t)

\* C27: a set of a key that is stored replaces its value, sets its expiry to
\* now + ttl and makes it the most recently used entry; every other entry
\* that has not expired stays, in its order, also when the cache was full.
C27_SetOfStoredKey ==
  SetOfStored =>
    /\ MapGet(store, lastOp.key) = NewEntry(lastOp.key, lastOp.value, now)
    /\ newestKey(store) = lastOp.key
    /\ hist.recency[Len(hist.recency)] = lastOp.key
    /\ OthersUnexpired(store, lastOp.key, now)
         = OthersUnexpired(lastOp.before, lastOp.key, now)
    /\ size(store) = 1 + Len(OthersUnexpired(lastOp.before, lastOp.key, now))

\* C27 witness: a set with a new value of the least recently used key of a
\* full cache of two unexpired entries, later than the key's previous set.
C27_Witness ==
  /\ SetOfStored
  /\ Len(lastOp.before) = maxEntriesOf(cfg)
  /\ Len(lastOp.before) = 2
  /\ AllUnexpired(lastOp.before, now)
  /\ oldestKey(lastOp.before) = lastOp.key
  /\ lastOp.before[1].value # lastOp.value
  /\ lastOp.before[1].expiresAt < now + ttlSecOf(cfg) * MsPerSec
  /\ size(store) = 2

\* ------------------------------------- cache used with any string as key
\* createAnalyzeCache accepts every string as a key, the empty one included
AnyCacheKeys == {EmptyString, "a"}

InitAnyKey ==
  /\ cfg \in CacheCfgs
  /\ now = 0
  /\ store = << >>
  /\ lastOp = Quiet
  /\ hist = HistInit(AnyCacheKeys)
  /\ IdleGateway
  /\ jobs = [j \in Slots |-> NoJob]
  /\ microtasks = << >>
  /\ abandoned = EmptyMap

NextAnyKey ==
  \/ Tick(MaxNow)
  \/ \E key \in AnyCacheKeys : CacheGet(key)
  \/ \E key \in AnyCacheKeys, value \in CacheValues : CacheSet(key, value)
  \/ CacheSweep

SpecAnyKey == InitAnyKey /\ [][NextAnyKey]_vars

RateLimits == {1, 2, 3}
RateWindows == {HalfSecond, MsPerSec}
RateCfgs == [rateLimit : RateLimits, rateWindowMs : RateWindows]
RateKeys == {<<"analyze:", "10_0_0_1">>, <<"analyze:", "10_0_0_2">>}

\* history of a bucket key: when its current window started and how many
\* requests of that window were allowed
NoWindow == [start |-> -1, allowed |-> 0]
WindowOpen(w, t) == w.start >= 0 /\ t < w.start + cfg.rateWindowMs
WindowOnRequest(w, t, limited) ==
  IF ~WindowOpen(w, t) THEN [start |-> t, allowed |-> 1]
  ELSE IF limited THEN w
  ELSE [w EXCEPT !.allowed = @ + 1]

InitRate ==
  /\ cfg \in RateCfgs
  /\ now = 0
  /\ store = << >>
  /\ hist = [k \in RateKeys |-> NoWindow]
  /\ lastOp = Quiet
  /\ IdleGateway
  /\ jobs = [j \in Slots |-> NoJob]
  /\ microtasks = << >>
  /\ abandoned = EmptyMap

\* a request reaches isRateLimited(key, limit, windowMs)
RateRequest(key) ==
  LET rl == isRateLimited(rateBuckets, key, cfg.rateLimit, cfg.rateWindowMs, now) IN
  /\ rateBuckets' = rl.buckets
  /\ hist' = [hist EXCEPT ![key] = WindowOnRequest(@, now, rl.limited)]
  /\ lastOp' = [op |-> "rate", key |-> key, limited |-> rl.limited,
                window |-> hist[key], bucketsBefore |-> rateBuckets]
  /\ UNCHANGED <<cfg, now, store, runtimeGeminiApiKey, analyzeInFlight, handlers,
                 reactions, okAt, jobVars>>

\* setInterval: cleanExpiredRateBuckets()
RateCleanup ==
  /\ rateBuckets' = cleanExpiredRateBuckets(rateBuckets, now)
  /\ lastOp' = Quiet
  /\ UNCHANGED <<cfg, now, cacheVars, runtimeGeminiApiKey, analyzeInFlight,
                 handlers, reactions, okAt, jobVars>>

NextRate ==
  \/ Tick(MaxNow)
  \/ \E key \in RateKeys : RateRequest(key)
  \/ RateCleanup

SpecRate == InitRate /\ [][NextRate]_vars

\* C11: a request is rejected exactly when its window is open and limit
\* requests of the window were allowed before it; a request outside an open
\* window is allowed and leaves the bucket {count: 1, resetAt: now + windowMs};
\* an allowed request inside the window adds one to count; a rejected request
\* is never counted; the other buckets are left alone.
C11_FixedWindow ==
  lastOp.op = "rate" =>
    LET w == lastOp.window
        key == lastOp.key
        open == WindowOpen(w, now)
    IN /\ lastOp.limited <=> (open /\ w.allowed >= cfg.rateLimit)
       /\ ~open => rateBuckets[key] = [count |-> 1, resetAt |-> now + cfg.rateWindowMs]
       /\ open => /\ rateBuckets[key].resetAt = w.start + cfg.rateWindowMs
                  /\ rateBuckets[key].count = hist[key].allowed
                  /\ hist[key].allowed <= cfg.rateLimit
       /\ \A k \in DOMAIN lastOp.bucketsBefore \ {key} :
            k \in DOMAIN rateBuckets /\ rateBuckets[k] = lastOp.bucketsBefore[k]

\* C11 witness: after a window in which limit requests were allowed, the request made exactly
\* at resetAt was allowed and started a new window.
C11_Witness ==
  /\ lastOp.op = "rate"
  /\ ~lastOp.limited
  /\ lastOp.window.allowed = cfg.rateLimit
  /\ cfg.rateLimit >= 2
  /\ now = lastOp.window.start + cfg.rateWindowMs
  /\ rateBuckets[lastOp.key].count = 1


\* ------------------------- rate limiter beside one without collection
\* hist is the bucket map as it would be had no bucket ever been collected:
\* every request is also put to it, the maintenance timer leaves it alone.
InitRateGc ==
  /\ cfg \in RateCfgs
  /\ now = 0
  /\ store = << >>
  /\ hist = EmptyMap
  /\ lastOp = Quiet
  /\ IdleGateway
  /\ jobs = [j \in Slots |-> NoJob]
  /\ microtasks = << >>
  /\ abandoned = EmptyMap

\* a request reaches isRateLimited(key, limit, windowMs)
GcRequest(key) ==
  LET rl == isRateLimited(rateBuckets, key, cfg.rateLimit, cfg.rateWindowMs, now)
      uncollected == isRateLimited(hist, key, cfg.rateLimit, cfg.rateWindowMs, now)
  IN
  /\ rateBuckets' = rl.buckets
  /\ hist' = uncollected.buckets
  /\ lastOp' = [op |-> "rate", key |-> key, limited |-> rl.limited,
                uncollected |-> uncollected.limited]
  /\ UNCHANGED <<cfg, now, store, runtimeGeminiApiKey, analyzeInFlight, handlers,
                 reactions, okAt, jobVars>>

\* setInterval: cleanExpiredRateBuckets()
GcCleanup ==
  /\ rateBuckets' = cleanExpiredRateBuckets(rateBuckets, now)
  /\ lastOp' = [op |-> "gc", before |-> rateBuckets]
  /\ UNCHANGED <<cfg, now, cacheVars, runtimeGeminiApiKey, analyzeInFlight,
                 handlers, reactions, okAt, jobVars>>

NextRateGc ==
  \/ Tick(MaxNow)
  \/ \E key \in RateKeys : GcRequest(key)
  \/ GcCleanup

SpecRateGc == InitRateGc /\ [][NextRateGc]_vars

\* C24: garbage collection removes only buckets with resetAt <= now and
\* leaves the others as they are; every request gets the decision it would
\* get had no bucket ever been collected, and the buckets differ from the
\* uncollected ones only by buckets whose window is over.
C24_GcPreservesDecisions ==
  /\ lastOp.op = "gc" =>
        /\ \A k \in DOMAIN lastOp.before \ DOMAIN rateBuckets :
              lastOp.before[k].resetAt <= now
        /\ \A k \in DOMAIN rateBuckets :
              k \in DOMAIN lastOp.before /\ rateBuckets[k] = lastOp.before[k]
  /\ lastOp.op = "rate" => lastOp.limited = lastOp.uncollected
  /\ \A k \in DOMAIN rateBuckets : k \in DOMAIN hist /\ hist[k] = rateBuckets[k]
  /\ \A k \in DOMAIN hist \ DOMAIN rateBuckets : hist[k].resetAt <= now

\* C24 witness: a request was rejected although the bucket of the other
\* client had been collected in the meantime.
C24_Witness ==
  /\ lastOp.op = "rate"
  /\ lastOp.limited
  /\ DOMAIN rateBuckets # DOMAIN hist

\* ------------------------- rate limiter with a bucket map over its size
\* The map starts with RATE_BUCKET_MAX_SIZE buckets that other clients left
\* behind, whose windows have ended and which the maintenance timer has not
\* collected yet, and with the open bucket of one follow-up client, so that
\* the collection inside isRateLimited runs at the next request.
OtherClients == {"tts:" \o ToString(i) : i \in 1..RateBucketMaxSize}
FollowUpKey == "followup:10_0_0_1"
FullKeys == {"analyze:10_0_0_1", "analyze:10_0_0_2"}
LeftBehind ==
  [k \in OtherClients \cup {FollowUpKey} |->
     IF k = FollowUpKey THEN [count |-> 1, resetAt |-> MaxNow + HalfSecond]
     ELSE [count |-> 1, resetAt |-> 0]]

InitRateFull ==
  /\ cfg \in RateCfgs
  /\ now = 0
  /\ store = << >>
  /\ hist = [k \in FullKeys |-> NoWindow]
  /\ lastOp = Quiet
  /\ rateBuckets = LeftBehind
  /\ runtimeGeminiApiKey = ""
  /\ analyzeInFlight = EmptyMap
  /\ handlers = [r \in Slots |-> FreeHandler]
  /\ reactions = [j \in Slots |-> << >>]
  /\ okAt = EmptyMap
  /\ jobs = [j \in Slots |-> NoJob]
  /\ microtasks = << >>
  /\ abandoned = EmptyMap

NextRateFull ==
  \/ Tick(MaxNow)
  \/ \E key \in FullKeys : RateRequest(key)
  \/ RateCleanup

SpecRateFull == InitRateFull /\ [][NextRateFull]_vars

\* the bucket of key was in the map and its window was open at t
Unexpired(buckets, key, t) == key \in DOMAIN buckets /\ buckets[key].resetAt > t

\* C28 as stated: a request modifies the bucket of no other key.
C28_Original ==
  lastOp.op = "rate" =>
    \A k \in DOMAIN lastOp.bucketsBefore \ {lastOp.key} :
      k \in DOMAIN rateBuckets /\ rateBuckets[k] = lastOp.bucketsBefore[k]

\* C28: a rejected request leaves its bucket as it was; a request inside the
\* window of its bucket keeps resetAt; count never exceeds limit; a request
\* leaves the bucket of every other key as it was, or removes it if its
\* window had ended, and adds no bucket of another key.
C28_RequestFrame ==
  /\ \A k \in DOMAIN rateBuckets :
       rateBuckets[k].count >= 1 /\ rateBuckets[k].count <= cfg.rateLimit
  /\ lastOp.op = "rate" =>
       LET before == lastOp.bucketsBefore
           key == lastOp.key
       IN /\ lastOp.limited =>
               Unexpired(before, key, now) /\ rateBuckets[key] = before[key]
          /\ Unexpired(before, key, now) =>
               rateBuckets[key].resetAt = before[key].resetAt
          /\ DOMAIN rateBuckets \subseteq DOMAIN before \cup {key}
          /\ \A k \in DOMAIN before \ {key} :
               \/ k \in DOMAIN rateBuckets /\ rateBuckets[k] = before[k]
               \/ k \notin DOMAIN rateBuckets /\ before[k].resetAt <= now

\* C28 witness: a request was rejected later in the window in which limit
\* requests of its client had been allowed; its bucket stayed at
\* count = limit, and the open buckets of the other analyze client and of the
\* follow-up client stayed as they were.
C28_Witness ==
  /\ lastOp.op = "rate"
  /\ lastOp.limited
  /\ cfg.rateLimit >= 2
  /\ now > lastOp.window.start
  /\ rateBuckets[lastOp.key] =
       [count |-> cfg.rateLimit, resetAt |-> lastOp.window.start + cfg.rateWindowMs]
  /\ \E k \in FullKeys \ {lastOp.key} : Unexpired(rateBuckets, k, now)
  /\ Unexpired(rateBuckets, FollowUpKey, now)
  /\ rateBuckets = lastOp.bucketsBefore
====
